---- MODULE Spec2Model ----
(***************************************************************************)
(* A model of the backrun/swap extractors:                                 *)
(*   - the Query Client rpc_call (extract_backruns.py 55-82, the same code *)
(*     in extract_swaps.py 36-64), attempt by attempt, under SpecRpc;      *)
(*   - the primary flow extract_backruns.main/process_tx under SpecPrimary;*)
(*   - the alternate flow extract_swaps.main/process_tx under SpecAlt.     *)
(* In the two flows a remote call is one step whose outcome is either the  *)
(* value the endpoint holds or the exception rpc_call raises once its      *)
(* retry budget is exhausted.                                              *)
(*                                                                         *)
(* Strings the code slices or lowercases (hashes, addresses, topics, hex   *)
(* quantities) are sequences of one-character strings.                     *)
(***************************************************************************)
EXTENDS Integers, Sequences, FiniteSets, TLC

VARIABLES
  \* ---- Query Client (rpc_call) ----
  rpc_id,       \* the global _rpc_id
  rpc_pc,       \* "idle" | "loop" | "returned" | "raised"
  rpc_retries,  \* the retries argument of the call in progress
  rpc_attempt,  \* the loop variable attempt (0-based)
  rpc_payload,  \* the envelope serialised once, before the loop
  rpc_out,      \* what the call returned or raised
  rpc_trace,    \* history of the call in progress: send / fail / sleep events
  rpc_sent,     \* history of the run: every envelope sent, in order
  rpc_ncalls,   \* history of the run: number of rpc_call invocations
  \* ---- the flows (main / process_tx) ----
  tx_hashes,    \* main: the input, read and lowercased
  i,            \* main: number of input entries handled so far
  pc,           \* where the flow stands, at its next remote call
  loc,          \* locals of the process_tx in progress
  block_cache,  \* block_cache: hex key -> header or null
  out,          \* the output streams, each the sequence of records written
  total_backruns, \* main: total_backruns
  errors,       \* main: errors
  calls,        \* history: every rpc_call issued by the flow, in order
  clock,        \* history: number of writes and calls so far
  \* ---- the alternate flow only ----
  rows,         \* main: the rows of load_input
  args,         \* main: the command line (topic0)
  done_txs,     \* main: done_txs, read from the output file at start
  total_swaps,  \* main: total_swaps
  restarts,     \* history: number of times the run was started again
  outage        \* what the last attempt of a raising call of this run meets

rpcVars == <<rpc_id, rpc_pc, rpc_retries, rpc_attempt, rpc_payload, rpc_out,
             rpc_trace, rpc_sent, rpc_ncalls>>

rpcLoopVars == <<rpc_pc, rpc_retries, rpc_attempt, rpc_payload, rpc_out, rpc_trace,
                 rpc_sent>>

altVars == <<rows, args, done_txs, total_swaps, restarts>>

primVars == <<tx_hashes, block_cache, total_backruns, outage>>

flowVars == <<tx_hashes, i, pc, loc, block_cache, out, total_backruns, errors, calls,
              clock, rows, args, done_txs, total_swaps, restarts, outage>>

vars == <<rpc_id, rpc_pc, rpc_retries, rpc_attempt, rpc_payload, rpc_out,
          rpc_trace, rpc_sent, rpc_ncalls, tx_hashes, i, pc, loc, block_cache, out,
          total_backruns, errors, calls, clock, rows, args, done_txs, total_swaps,
          restarts, outage>>

None == "None"

(***************************************************************************)
(* Bounds of the model.                                                    *)
(***************************************************************************)
\* rpc_call invocations in one run of SpecRpc
MaxCalls == 3
\* entries of the input file of a run of a flow
MaxTxs == 2
\* remote calls of a run of a flow that raise (retry budget exhausted)
MaxFailures == 1

(***************************************************************************)
(* Program constants.                                                      *)
(***************************************************************************)
MAX_RETRIES == 5
\* BACKOFF_BASE = 1.5 = BACKOFF_BASE_NUM / BACKOFF_BASE_DEN
BACKOFF_BASE_NUM == 3
BACKOFF_BASE_DEN == 2

(***************************************************************************)
(* Arithmetic helpers.                                                     *)
(***************************************************************************)
RECURSIVE Pow(_, _)
Pow(b, e) == IF e = 0 THEN 1 ELSE b * Pow(b, e - 1)

Last(s) == s[Len(s)]

(***************************************************************************)
(* Strings as sequences of characters; hex quantities; bytes.              *)
(***************************************************************************)
Null == [null |-> TRUE]

Min(a, b) == IF a < b THEN a ELSE b

\* F of the value of v, v evaluated once: what an assignment to a local does
Bind(v, F(_)) == CHOOSE r \in {F(x) : x \in {v}} : TRUE

Rep(c, n) == [k \in 1..n |-> c]

Ox == <<"0", "x">>

\* str.lower() on the characters that occur in hex strings
LowerChar(c) ==
  CASE c = "A" -> "a" [] c = "B" -> "b" [] c = "C" -> "c" [] c = "D" -> "d"
    [] c = "E" -> "e" [] c = "F" -> "f" [] c = "X" -> "x" [] OTHER -> c

Lower_Identity(s) == s

Lower(s) == CHOOSE r \in {[k \in 1..Len(v) |-> LowerChar(v[k])] : v \in {s}} : TRUE

HexDigits == <<"0", "1", "2", "3", "4", "5", "6", "7", "8", "9",
               "a", "b", "c", "d", "e", "f">>

HexVal(c) == CHOOSE v \in 0..15 : HexDigits[v + 1] = LowerChar(c)

\* s[lo:hi] of Python, 0-based, clipped to the length of s
Slice(s, lo, hi) ==
  IF Min(hi, Len(s)) <= lo THEN <<>> ELSE SubSeq(s, lo + 1, Min(hi, Len(s)))

\* s[-n:] of Python
LastN(s, n) == IF Len(s) <= n THEN s ELSE SubSeq(s, Len(s) - n + 1, Len(s))

StartsWith0x(h) == Len(h) >= 2 /\ h[1] = "0" /\ LowerChar(h[2]) = "x"

Strip0x(h) == IF StartsWith0x(h) THEN SubSeq(h, 3, Len(h)) ELSE h

\* In the operators below a set of one element binds the value of an
\* argument, so that it is evaluated once: what an assignment to a local does.
RECURSIVE DigitsToInt(_, _)
DigitsToInt(ds, acc) ==
  IF ds = <<>> THEN acc
  ELSE CHOOSE r \in {DigitsToInt(p[1], p[2]) :
                       p \in {<<SubSeq(ds, 2, Len(ds)), acc * 16 + HexVal(ds[1])>>}} : TRUE

\* hex_to_int: int(h, 16), with or without the 0x prefix, either case
hex_to_int(h) ==
  CHOOSE r \in {DigitsToInt(d, 0) : d \in {Strip0x(v) : v \in {h}}} : TRUE

RECURSIVE HexDigitsOf(_)
HexDigitsOf(n) ==
  IF n < 16 THEN <<HexDigits[n + 1]>>
  ELSE HexDigitsOf(n \div 16) \o <<HexDigits[(n % 16) + 1]>>

\* hex(n) of Python: 0x, lowercase digits, no padding
hex(n) == CHOOSE r \in {Ox \o HexDigitsOf(v) : v \in {n}} : TRUE

DecDigits == <<"0", "1", "2", "3", "4", "5", "6", "7", "8", "9">>

RECURSIVE DecToInt(_, _)
DecToInt(ds, acc) ==
  IF ds = <<>> THEN acc
  ELSE DecToInt(SubSeq(ds, 2, Len(ds)),
                acc * 10 + ((CHOOSE v \in 1..10 : DecDigits[v] = ds[1]) - 1))

\* int(parts[k]) on a decimal string
int(s) == DecToInt(s, 0)

\* hex_to_bytes: bytes.fromhex of the string without its 0x prefix
hex_to_bytes(h) ==
  Bind(Strip0x(h),
       LAMBDA d : [k \in 1..(Len(d) \div 2) |->
                     16 * HexVal(d[2 * k - 1]) + HexVal(d[2 * k])])

(***************************************************************************)
(* Python integers are unbounded and a 32-byte word does not fit the       *)
(* integers of the checker: an integer is a record of its sign and its     *)
(* magnitude, the magnitude a sequence of limbs of six decimal digits,     *)
(* most significant first, without leading zero limbs (empty for zero).    *)
(***************************************************************************)
LIMB == 1000000

\* a small non-negative integer as a magnitude
SmallNat(n) ==
  IF n = 0 THEN <<>> ELSE IF n < LIMB THEN <<n>> ELSE <<n \div LIMB, n % LIMB>>

RECURSIVE NatMulAddAt(_, _, _, _, _)
\* limbs k..1 of d times m plus carry, in front of the limbs acc
NatMulAddAt(d, m, k, carry, acc) ==
  IF k = 0 THEN SmallNat(carry) \o acc
  ELSE LET v == d[k] * m + carry
           done == <<v % LIMB>> \o acc
       IN NatMulAddAt(d, m, k - 1, v \div LIMB, done)

\* d * m + carry on magnitudes, for small m and carry
NatMulAdd(d, m, carry) == NatMulAddAt(d, m, Len(d), carry, <<>>)

\* d without its leading zero limbs
StripZeros(d) ==
  LET nz == {k \in 1..Len(d) : d[k] # 0}
  IN IF nz = {} THEN <<>>
     ELSE SubSeq(d, CHOOSE k \in nz : \A l \in nz : k <= l, Len(d))

\* a < b on magnitudes
NatLess(a, b) ==
  IF Len(a) # Len(b) THEN Len(a) < Len(b)
  ELSE \E k \in 1..Len(a) : a[k] < b[k] /\ \A l \in 1..(k - 1) : a[l] = b[l]

RECURSIVE NatSubAt(_, _, _, _, _)
\* limbs k..1 of a - b - borrow for magnitudes of one length, in front of
\* the limbs acc
NatSubAt(a, b, k, borrow, acc) ==
  IF k = 0 THEN acc
  ELSE LET v == a[k] - b[k] - borrow
           done == <<IF v < 0 THEN v + LIMB ELSE v>> \o acc
       IN NatSubAt(a, b, k - 1, IF v < 0 THEN 1 ELSE 0, done)

\* a - b on magnitudes, a >= b
NatSub(a, b) ==
  Bind(Rep(0, Len(a) - Len(b)) \o b,
       LAMBDA padded : Bind(NatSubAt(a, padded, Len(a), 0, <<>>), LAMBDA d : StripZeros(d)))

RECURSIVE BigEndianAt(_, _, _)
\* the value of bytes k.. of b after the value acc of the bytes before them
BigEndianAt(b, k, acc) ==
  IF k > Len(b) THEN acc
  ELSE Bind(NatMulAdd(acc, 256, b[k]), LAMBDA next : BigEndianAt(b, k + 1, next))

BigEndian(b, acc) == Bind(b, LAMBDA bytes : BigEndianAt(bytes, 1, acc))

\* 1 << 255 and 1 << 256
Pow2_255 == BigEndian(<<128>> \o Rep(0, 31), <<>>)
Pow2_256 == BigEndian(<<1>> \o Rep(0, 32), <<>>)

\* int256_from_bytes: two's complement of the big-endian value
int256_from_bytes(b) ==
  Bind(BigEndian(b, <<>>),
       LAMBDA v : IF ~NatLess(v, Pow2_255)
                  THEN [neg |-> TRUE, mag |-> NatSub(Pow2_256, v)]
                  ELSE [neg |-> FALSE, mag |-> v])

uint256_from_bytes_Signed(b) == int256_from_bytes(b)

\* uint256_from_bytes: int.from_bytes(b, "big")
uint256_from_bytes(b) == [neg |-> FALSE, mag |-> BigEndian(b, <<>>)]

RECURSIVE DecimalOf(_)
\* the decimal digits of a small non-negative integer
DecimalOf(n) ==
  IF n < 10 THEN <<DecDigits[n + 1]>> ELSE DecimalOf(n \div 10) \o <<DecDigits[(n % 10) + 1]>>

\* a limb after the first: six digits, zeros in front
LimbDigits(n) == LET t == DecimalOf(n) IN Rep("0", 6 - Len(t)) \o t

RECURSIVE Flatten(_, _)
Flatten(ss, k) == IF k > Len(ss) THEN <<>> ELSE ss[k] \o Flatten(ss, k + 1)

\* str(n) of an integer: its decimal digits, "-" first when negative
str(n) ==
  Bind(n, LAMBDA v :
    (IF v.neg THEN <<"-">> ELSE <<>>)
      \o (IF v.mag = <<>> THEN <<"0">>
          ELSE DecimalOf(v.mag[1])
                 \o Bind([k \in 1..(Len(v.mag) - 1) |-> LimbDigits(v.mag[k + 1])],
                         LAMBDA limbs : Flatten(limbs, 1))))

\* bytes.hex(): two lowercase digits per byte
RECURSIVE BytesHex(_)
BytesHex(b) ==
  IF b = <<>> THEN <<>>
  ELSE <<HexDigits[(b[1] \div 16) + 1], HexDigits[(b[1] % 16) + 1]>>
         \o BytesHex(SubSeq(b, 2, Len(b)))

addr_from_topic_NoLower(topic) == Ox \o LastN(topic, 40)

\* "0x" + topic[-40:].lower()
addr_from_topic(topic) == Ox \o Lower(LastN(topic, 40))

(***************************************************************************)
(* Configuration constants of extract_backruns.py.                         *)
(***************************************************************************)
TARGET_CONTRACT ==
  <<"0","x","7","4","c","5","1","8","1","5","f","0","7","0","8","0","3","d","5","3","b","b","6","8","7","9","d","f","6","f","c","1","6","4","8","d","7","4","1","2","1","2">>
BACKRUN_TOPIC0 ==
  <<"0","x","4","8","6","6","8","6","8","b","f","8","c","c","c","5","6","c","2","3","6","d","c","0","e","d","3","f","2","d","8","2","a","4","9","8","3","0","1","8","6","6","d","c","9","e","d","b","f","7","3","1","a","9","b","2","b","4","c","8","7","1","6","f","d","7">>
V3_SWAP_TOPIC0 ==
  <<"0","x","c","4","2","0","7","9","f","9","4","a","6","3","5","0","d","7","e","6","2","3","5","f","2","9","1","7","4","9","2","4","f","9","2","8","c","c","2","a","c","8","1","8","e","b","6","4","f","e","d","8","0","0","4","e","1","1","5","f","b","c","c","a","6","7">>
CUSTOM_SWAP_TOPIC0 ==
  <<"0","x","1","2","1","c","b","4","4","e","e","5","4","0","9","8","b","1","a","0","4","7","4","3","c","4","8","7","e","7","4","6","0","d","8","d","d","4","2","9","b","2","7","f","8","8","b","1","f","4","d","4","7","6","7","3","9","6","e","1","a","5","9","f","7","9">>
SWAP_TOPICS == {V3_SWAP_TOPIC0, CUSTOM_SWAP_TOPIC0}

(***************************************************************************)
(* The swap decoders.  A returned None is Null, a returned dictionary a    *)
(* record with null = FALSE; the word0..word7 keys of the custom result    *)
(* are the sequence words, and a key the dictionary does not have is       *)
(* Absent.                                                                 *)
(***************************************************************************)
Absent == "absent"

HexChars == {HexDigits[k] : k \in 1..16}

\* bytes.fromhex raises ValueError on an odd number of digits or a character
\* that is no hex digit
fromhex_raises(h) ==
  Bind(Strip0x(h),
       LAMBDA d : Len(d) % 2 = 1 \/ \E k \in 1..Len(d) : LowerChar(d[k]) \notin HexChars)

DecodeError(e) == [null |-> FALSE, decode_error |-> e]

V3Record(log_entry, data) ==
  [null |-> FALSE,
   type |-> "v3",
   sender |-> addr_from_topic(log_entry.topics[2]),
   recipient |-> addr_from_topic(log_entry.topics[3]),
   amount0 |-> str(int256_from_bytes(Slice(data, 0, 32))),
   amount1 |-> str(int256_from_bytes(Slice(data, 32, 64))),
   sqrtPriceX96 |-> str(uint256_from_bytes(Slice(data, 64, 96))),
   liquidity |-> str(uint256_from_bytes(Slice(data, 96, 128))),
   tick |-> str(int256_from_bytes(Slice(data, 128, 160)))]

decode_v3_swap_NoLengthTest(log_entry) ==
  IF fromhex_raises(log_entry.data) THEN DecodeError("ValueError")
  ELSE IF Len(log_entry.topics) < 3 THEN DecodeError("IndexError")
  ELSE Bind(hex_to_bytes(log_entry.data), LAMBDA data : V3Record(log_entry, data))

decode_v3_swap(log_entry) ==
  IF fromhex_raises(log_entry.data) THEN DecodeError("ValueError")
  ELSE Bind(hex_to_bytes(log_entry.data),
            LAMBDA data : IF Len(data) < 160 THEN Null
                          ELSE IF Len(log_entry.topics) < 3 THEN DecodeError("IndexError")
                          ELSE V3Record(log_entry, data))

decode_custom_swap(log_entry) ==
  IF fromhex_raises(log_entry.data) THEN DecodeError("ValueError")
  ELSE Bind(hex_to_bytes(log_entry.data), LAMBDA data :
         LET topics == log_entry.topics
             n_words == Len(data) \div 32
         IN [null |-> FALSE,
             type |-> "custom",
             topic0 |-> CUSTOM_SWAP_TOPIC0,
             topic1_addr |-> IF Len(topics) >= 2 THEN addr_from_topic(topics[2]) ELSE Absent,
             topic2_addr |-> IF Len(topics) >= 3 THEN addr_from_topic(topics[3]) ELSE Absent,
             words |-> [k \in 1..Min(n_words, 8) |->
                          str(int256_from_bytes(Slice(data, (k - 1) * 32, k * 32)))]])

\* the outcome of a call: the value it returns or the exception it raises
Returned(v) == [raised |-> FALSE, value |-> v]
Raised(e) == [raised |-> TRUE, exc |-> e]

\* decode_swap reads topics[0] before it enters a decoder's try block
decode_swap(log_entry) ==
  IF Len(log_entry.topics) = 0 THEN Raised("IndexError")
  ELSE LET t0 == Lower(log_entry.topics[1])
       IN IF t0 = V3_SWAP_TOPIC0 THEN Returned(decode_v3_swap(log_entry))
          ELSE IF t0 = CUSTOM_SWAP_TOPIC0 THEN Returned(decode_custom_swap(log_entry))
          ELSE Returned(Null)

\* the string with its letters in upper case, 0x kept: an equal address or
\* topic as an endpoint may spell it
UpperChar(c) ==
  CASE c = "a" -> "A" [] c = "b" -> "B" [] c = "c" -> "C" [] c = "d" -> "D"
    [] c = "e" -> "E" [] c = "f" -> "F" [] OTHER -> c

Upper(s) == [k \in 1..Len(s) |-> UpperChar(s[k])]

(***************************************************************************)
(* The chain the endpoint answers from.  It is fixed data: receipts,       *)
(* transaction bodies, block headers and the answers of the ranged log     *)
(* query, chosen so that every branch of the extractors is taken: an       *)
(* absent receipt, a receipt without backrun log, one and two backrun      *)
(* events, logs of the origin transaction, of earlier and of later         *)
(* transactions in the ranged answers, null and empty answers, addresses,  *)
(* topics and hashes spelled in upper case.                                *)
(***************************************************************************)
H_NULL == <<"0", "x", "0", "1">>
H_NOLOG == <<"0", "x", "0", "2">>
H_ONE == <<"0", "x", "a", "3">>
H_TWO == <<"0", "x", "a", "4">>
H_BODYLESS == <<"0", "x", "a", "5">>
H_BEFORE == <<"0", "x", "b", "0">>
H_AFTER == <<"0", "x", "c", "1">>
H_AFTER2 == <<"0", "x", "c", "2">>
H_OTHER == <<"0", "x", "d", "7">>

PoolP == Ox \o Rep("a", 40)
PoolQ == Ox \o Rep("b", 40)

\* a 32-byte topic whose last 20 bytes are the character c repeated
TopicFor(c) == Ox \o Rep("0", 24) \o Rep(c, 40)

\* a topic of pool P with upper-case digits and non-zero upper 12 bytes
TopicDirty == Ox \o Rep("F", 24) \o Rep("A", 40)

\* the data of a backrun log: 160 bytes, the profit in bytes 96..127 (its
\* last two bytes given as four hex digits), the token in bytes 140..159
BackrunData(profit4, tokenChar) ==
  Ox \o Rep("0", 192) \o Rep("0", 60) \o profit4 \o Rep("0", 24) \o Rep(tokenChar, 40)

Log(address, topics, data, logIndex, txHash, txIndex, blockNumber) ==
  [address |-> address, topics |-> topics, data |-> data, logIndex |-> logIndex,
   transactionHash |-> txHash, transactionIndex |-> txIndex,
   blockNumber |-> blockNumber]

Q(n) == hex(n)

\* the receipts of the chain
ReceiptData(h) ==
  CASE h = H_NOLOG ->
         [null |-> FALSE, blockNumber |-> Q(12), transactionIndex |-> Q(0),
          from |-> Ox \o Rep("E", 40),
          logs |-> <<
            Log(TARGET_CONTRACT, <<BACKRUN_TOPIC0>>, Ox, Q(0), H_NOLOG, Q(0), Q(12)),
            Log(PoolP, <<BACKRUN_TOPIC0, TopicFor("a")>>, Ox, Q(1), H_NOLOG, Q(0), Q(12)),
            Log(TARGET_CONTRACT, <<V3_SWAP_TOPIC0, TopicFor("a")>>, Ox, Q(2), H_NOLOG, Q(0), Q(12)),
            Log(TARGET_CONTRACT, <<>>, Ox, Q(3), H_NOLOG, Q(0), Q(12)) >>]
    [] h = H_ONE ->
         [null |-> FALSE, blockNumber |-> Q(14), transactionIndex |-> Q(1),
          from |-> Ox \o Rep("E", 40),
          logs |-> <<
            Log(Upper(TARGET_CONTRACT), <<Upper(BACKRUN_TOPIC0), TopicFor("A")>>,
                BackrunData(<<"0", "3", "e", "8">>, "c"), Q(3), H_ONE, Q(1), Q(14)),
            Log(PoolP, <<V3_SWAP_TOPIC0, TopicFor("1"), TopicFor("2")>>, Ox,
                Q(4), H_ONE, Q(1), Q(14)),
            Log(Upper(PoolP), <<Upper(CUSTOM_SWAP_TOPIC0)>>, Ox, Q(5), H_ONE, Q(1), Q(14)),
            Log(PoolQ, <<V3_SWAP_TOPIC0, TopicFor("1"), TopicFor("2")>>, Ox,
                Q(6), H_ONE, Q(1), Q(14)),
            Log(PoolP, <<>>, Ox, Q(7), H_ONE, Q(1), Q(14)),
            Log(PoolP, <<BACKRUN_TOPIC0, TopicFor("a")>>, Ox, Q(8), H_ONE, Q(1), Q(14)) >>]
    [] h = H_TWO ->
         [null |-> FALSE, blockNumber |-> Q(9), transactionIndex |-> Q(2),
          from |-> Ox \o Rep("f", 40),
          logs |-> <<
            Log(PoolP, <<CUSTOM_SWAP_TOPIC0, TopicFor("1")>>, Ox, Q(16), H_TWO, Q(2), Q(9)),
            Log(TARGET_CONTRACT, <<BACKRUN_TOPIC0, TopicDirty, TopicFor("3")>>,
                BackrunData(<<"0", "0", "0", "7">>, "d"), Q(17), H_TWO, Q(2), Q(9)),
            Log(PoolQ, <<V3_SWAP_TOPIC0, TopicFor("1"), TopicFor("2")>>, Ox,
                Q(18), H_TWO, Q(2), Q(9)),
            Log(TARGET_CONTRACT, <<BACKRUN_TOPIC0, TopicFor("B")>>,
                BackrunData(<<"0", "1", "0", "0">>, "c"), Q(19), H_TWO, Q(2), Q(9)) >>]
    [] h = H_BODYLESS ->
         [null |-> FALSE, blockNumber |-> Q(15), transactionIndex |-> Q(0),
          from |-> Ox \o Rep("e", 40),
          logs |-> <<
            Log(TARGET_CONTRACT, <<BACKRUN_TOPIC0, TopicFor("b")>>,
                BackrunData(<<"f", "f", "f", "f">>, "d"), Q(0), H_BODYLESS, Q(0), Q(15)) >>]
    [] OTHER -> Null

Receipts == [h \in {H_NOLOG, H_ONE, H_TWO, H_BODYLESS} |-> ReceiptData(h)]

\* eth_getTransactionReceipt
ChainReceipt(h) == IF h \in DOMAIN Receipts THEN Receipts[h] ELSE Null

\* eth_getTransactionByHash; an absent "to" (contract creation) reads as ""
ChainTx(h) ==
  CASE h = H_NOLOG -> [null |-> FALSE, to |-> <<>>, input |-> Ox,
                       from |-> Ox \o Rep("E", 40)]
    [] h = H_ONE -> [null |-> FALSE, to |-> Upper(TARGET_CONTRACT),
                     input |-> Ox \o <<"A", "B", "C", "D", "1", "2", "3", "4", "5", "6">>,
                     from |-> Ox \o Rep("E", 40)]
    [] h = H_TWO -> [null |-> FALSE, to |-> TARGET_CONTRACT,
                     input |-> Ox \o <<"1", "2", "3", "4">>,
                     from |-> Ox \o Rep("f", 40)]
    [] h = H_AFTER -> [null |-> FALSE, to |-> PoolP, input |-> Ox,
                       from |-> Ox \o Rep("9", 40)]
    [] h = H_AFTER2 -> [null |-> FALSE, to |-> PoolP, input |-> Ox,
                        from |-> Ox \o Rep("D", 40)]
    [] OTHER -> Null

\* eth_getBlockByNumber, by block number
ChainBlock(n) ==
  IF n \in {15, 18} THEN Null
  ELSE [null |-> FALSE, timestamp |-> hex(1000 + 12 * n)]

SwapLog(pool, t0, logIndex, txHash, txIndex, block) ==
  Log(pool, <<t0, TopicFor("1"), TopicFor("2")>>, Ox, Q(logIndex), txHash, Q(txIndex),
      Q(block))

\* the swap logs of block n emitted by pool, with either swap signature:
\* what eth_getLogs answers for them, null or the list of the logs
SwapLogData(n, pool) ==
  CASE n = 14 /\ pool = PoolP ->
         [null |-> FALSE, logs |-> <<
            SwapLog(PoolP, V3_SWAP_TOPIC0, 1, H_BEFORE, 0, 14),
            SwapLog(PoolP, V3_SWAP_TOPIC0, 4, H_ONE, 1, 14),
            SwapLog(PoolP, CUSTOM_SWAP_TOPIC0, 5, Upper(H_ONE), 1, 14) >>]
    [] n = 16 /\ pool = PoolP ->
         [null |-> FALSE, logs |-> <<
            SwapLog(PoolP, V3_SWAP_TOPIC0, 2, Upper(H_AFTER), 0, 16) >>]
    [] n = 9 /\ pool = PoolP ->
         [null |-> FALSE, logs |-> <<
            SwapLog(PoolP, V3_SWAP_TOPIC0, 3, H_BEFORE, 1, 9),
            SwapLog(PoolP, CUSTOM_SWAP_TOPIC0, 16, Upper(H_TWO), 2, 9),
            SwapLog(PoolP, V3_SWAP_TOPIC0, 17, H_OTHER, 2, 9),
            SwapLog(PoolP, V3_SWAP_TOPIC0, 20, Upper(H_AFTER), 3, 9),
            SwapLog(PoolP, V3_SWAP_TOPIC0, 21, H_TWO, 5, 9),
            SwapLog(PoolP, CUSTOM_SWAP_TOPIC0, 30, H_AFTER2, 10, 9) >>]
    [] n = 10 /\ pool = PoolP ->
         [null |-> FALSE, logs |-> <<
            SwapLog(PoolP, V3_SWAP_TOPIC0, 0, H_AFTER, 0, 10),
            SwapLog(PoolP, CUSTOM_SWAP_TOPIC0, 1, H_AFTER, 0, 10) >>]
    [] n = 12 /\ pool = PoolP ->
         [null |-> FALSE, logs |-> <<
            SwapLog(PoolP, V3_SWAP_TOPIC0, 9, H_NOLOG, 0, 12) >>]
    [] n \in {9, 10} /\ pool = PoolQ -> Null
    [] n = 11 /\ pool = PoolQ ->
         [null |-> FALSE, logs |-> <<
            SwapLog(PoolQ, V3_SWAP_TOPIC0, 2, H_AFTER2, 1, 11) >>]
    [] n = 15 /\ pool = PoolQ ->
         [null |-> FALSE, logs |-> <<
            SwapLog(PoolQ, V3_SWAP_TOPIC0, 1, H_AFTER, 1, 15) >>]
    [] n = 16 /\ pool = PoolQ ->
         [null |-> FALSE, logs |-> <<
            SwapLog(PoolQ, CUSTOM_SWAP_TOPIC0, 0, H_AFTER2, 0, 16) >>]
    [] OTHER -> [null |-> FALSE, logs |-> <<>>]

SwapLogTable == [n \in 9..16, pool \in {PoolP, PoolQ} |-> SwapLogData(n, pool)]

\* eth_getLogs for the one block n, the emitting address pool and the two
\* swap signatures
ChainSwapLogs(n, pool) ==
  IF <<n, pool>> \in DOMAIN SwapLogTable THEN SwapLogTable[n, pool]
  ELSE SwapLogData(n, pool)

\* the lines of tx_hashes.txt a run may be given
InputLines == {H_NULL, H_NOLOG, H_ONE, Upper(H_TWO), H_BODYLESS, <<>>}

(***************************************************************************)
(* Query Client: rpc_call.                                                 *)
(***************************************************************************)
\* What one attempt can meet: urlopen/json.loads raising (ok = FALSE), or a
\* parsed body that may carry an "error" field and may carry a "result" field.
Responses ==
  {[ok |-> FALSE, has_error |-> FALSE, has_result |-> FALSE]} \cup
  {[ok |-> TRUE, has_error |-> e, has_result |-> r] : e \in BOOLEAN, r \in BOOLEAN}

\* a counter of one bit
NextRpcId_Wrap(id) == (id + 1) % 2

NextRpcId_Same(id) == id

\* _rpc_id += 1
NextRpcId(id) == id + 1

AttemptFails_NoErrorCheck(resp) == ~resp.ok

\* the try body raises: urlopen / json.loads raise, or "error" in body
AttemptFails(resp) == ~resp.ok \/ resp.has_error

FailureKind(resp) == IF ~resp.ok THEN "transport" ELSE "rpc_error"

MoreAttempts_OffByOne(attempt, retries) == attempt < retries

\* if attempt < retries - 1
MoreAttempts(attempt, retries) == attempt < retries - 1

BackoffWait_ZeroBased(attempt) ==
  [num |-> Pow(BACKOFF_BASE_NUM, attempt), den |-> Pow(BACKOFF_BASE_DEN, attempt)]

\* wait = BACKOFF_BASE ** (attempt + 1), as the fraction num/den
BackoffWait(attempt) ==
  [num |-> Pow(BACKOFF_BASE_NUM, attempt + 1),
   den |-> Pow(BACKOFF_BASE_DEN, attempt + 1)]

RpcInit ==
  /\ rpc_id = 0
  /\ rpc_pc = "idle"
  /\ rpc_retries = 0
  /\ rpc_attempt = 0
  /\ rpc_payload = [id |-> 0]
  /\ rpc_out = [kind |-> "none"]
  /\ rpc_trace = <<>>
  /\ rpc_sent = <<>>
  /\ rpc_ncalls = 0

\* rpc_call entered: the id is taken and the payload serialised once (59-62)
RpcStart(r) ==
  /\ rpc_pc # "loop"
  /\ rpc_ncalls < MaxCalls
  /\ rpc_id' = NextRpcId(rpc_id)
  /\ rpc_payload' = [id |-> NextRpcId(rpc_id)]
  /\ rpc_retries' = r
  /\ rpc_attempt' = 0
  /\ rpc_out' = [kind |-> "none"]
  /\ rpc_trace' = <<>>
  /\ rpc_ncalls' = rpc_ncalls + 1
  /\ rpc_pc' = "loop"
  /\ UNCHANGED rpc_sent
  /\ UNCHANGED flowVars

\* one iteration of "for attempt in range(retries)" (63-82)
RpcAttempt(resp) ==
  /\ rpc_pc = "loop"
  /\ rpc_attempt < rpc_retries
  /\ rpc_sent' = Append(rpc_sent, [call |-> rpc_ncalls, attempt |-> rpc_attempt + 1,
                                   id |-> rpc_payload.id])
  /\ LET send == [ev |-> "send", att |-> rpc_attempt + 1, id |-> rpc_payload.id]
         fail == [ev |-> "fail", att |-> rpc_attempt + 1, kind |-> FailureKind(resp)]
     IN IF ~AttemptFails(resp)
        THEN \* return body.get("result")
             /\ rpc_out' = [kind |-> "result", att |-> rpc_attempt + 1,
                            value |-> IF resp.has_result THEN "result" ELSE None,
                            from_error_body |-> resp.has_error]
             /\ rpc_trace' = rpc_trace \o <<send>>
             /\ rpc_pc' = "returned"
             /\ UNCHANGED rpc_attempt
        ELSE IF MoreAttempts(rpc_attempt, rpc_retries)
        THEN \* time.sleep(wait), next iteration
             /\ rpc_trace' = rpc_trace \o
                  <<send, fail, [ev |-> "sleep", att |-> rpc_attempt + 1,
                                 wait |-> BackoffWait(rpc_attempt)]>>
             /\ rpc_attempt' = rpc_attempt + 1
             /\ UNCHANGED <<rpc_out, rpc_pc>>
        ELSE \* raise
             /\ rpc_out' = [kind |-> "raise", att |-> rpc_attempt + 1,
                            err |-> FailureKind(resp)]
             /\ rpc_trace' = rpc_trace \o <<send, fail>>
             /\ rpc_pc' = "raised"
             /\ UNCHANGED rpc_attempt
  /\ UNCHANGED <<rpc_id, rpc_retries, rpc_payload, rpc_ncalls>>
  /\ UNCHANGED flowVars

\* range(retries) exhausted without return or raise: the function falls off
\* its end and returns None
RpcLoopExit ==
  /\ rpc_pc = "loop"
  /\ ~(rpc_attempt < rpc_retries)
  /\ rpc_out' = [kind |-> "result", att |-> 0, value |-> None, from_error_body |-> FALSE]
  /\ rpc_pc' = "returned"
  /\ UNCHANGED <<rpc_id, rpc_retries, rpc_attempt, rpc_payload, rpc_trace, rpc_sent,
                 rpc_ncalls>>
  /\ UNCHANGED flowVars

RpcNext ==
  \/ \E r \in 0..MAX_RETRIES : RpcStart(r)
  \/ \E resp \in Responses : RpcAttempt(resp)
  \/ RpcLoopExit

\* history: the calls of the run that raised so far
NFailures == Cardinality({c \in 1..Len(calls) : calls[c].raised})

\* str(e) of the exception a call raises when its last attempt failed
FailureMessages == {FailureKind(resp) : resp \in {r \in Responses : AttemptFails(r)}}

\* no flow runs
FlowIdle ==
  /\ tx_hashes = <<>>
  /\ i = 0
  /\ pc = "idle"
  /\ loc = [none |-> TRUE]
  /\ block_cache = <<>>
  /\ out = [none |-> TRUE]
  /\ total_backruns = 0
  /\ errors = 0
  /\ calls = <<>>
  /\ clock = 0
  /\ rows = <<>>
  /\ args = [none |-> TRUE]
  /\ done_txs = {}
  /\ total_swaps = 0
  /\ restarts = 0
  /\ outage = None

InitRpc == RpcInit /\ FlowIdle

SpecRpc == InitRpc /\ [][RpcNext]_vars

(***************************************************************************)
(* Primary flow: extract_backruns.py, main and process_tx.                 *)
(* A step runs from one remote call to the next; the writes between two    *)
(* calls are part of the step of the first.  A record carries, besides the *)
(* fields the code writes, three history fields: txi (position of the      *)
(* origin transaction in the input), ev (position of the backrun event in  *)
(* the receipt) and at (the rank of the write among all writes and calls). *)
(* The fields decoded and raw_log of the swap records are left out.        *)
(***************************************************************************)
EmptyOut ==
  [backruns |-> <<>>, tx_swaps |-> <<>>, same_block_swaps |-> <<>>,
   next_swaps |-> <<>>, errors |-> <<>>, summary |-> <<>>]

LocIdle ==
  [receipt |-> Null, tx_to |-> <<>>, tx_input_selector |-> <<>>, block_number |-> 0,
   block_hex |-> <<>>, tx_index |-> 0, block_time |-> <<>>, ev |-> 0,
   pool |-> <<>>, profit_raw |-> <<>>, profit_token |-> <<>>, oi |-> 0,
   nb_time |-> <<>>, n_tx_swaps |-> 0, n_same_block_after |-> 0, n_next_swaps |-> 0,
   backrun_count |-> 0]

Offsets_TwoBlocks == <<1, 2>>

\* for offset in (1, 2, 3)
Offsets == <<1, 2, 3>>

\* time.strftime("%Y-%m-%dT%H:%M:%SZ", time.gmtime(ts))
FormatTime(ts) == <<"utc", ts>>

\* block_time / nb_time: "" unless the cached header is truthy
BlockTimeOf(header) ==
  CHOOSE r \in {IF blk.null THEN <<>> ELSE FormatTime(hex_to_int(blk.timestamp)) :
                 blk \in {header}} : TRUE

\* parse_backrun_log
\* the exception parse_backrun_log raises, None when it returns
parse_backrun_log_raises(log_entry) ==
  IF Len(log_entry.topics) < 2 THEN "IndexError"
  ELSE IF fromhex_raises(log_entry.data) THEN "ValueError"
  ELSE None

parse_backrun_log_NoLower(log_entry) ==
  LET topic1 == log_entry.topics[2]
      data == hex_to_bytes(log_entry.data)
  IN [pool |-> Ox \o LastN(topic1, 40),
      profit_raw |-> str(uint256_from_bytes(Slice(data, 96, 128))),
      profit_token |-> Ox \o Lower(BytesHex(Slice(data, 140, 160)))]

parse_backrun_log(log_entry) ==
  Bind(hex_to_bytes(log_entry.data), LAMBDA data :
    LET topic1 == log_entry.topics[2]
    IN [pool |-> Ox \o Lower(LastN(topic1, 40)),
        profit_raw |-> str(uint256_from_bytes(Slice(data, 96, 128))),
        profit_token |-> Ox \o Lower(BytesHex(Slice(data, 140, 160)))])

\* parse_backrun_log on the backrun-shaped logs of the chain, computed once
ParsedTable ==
  [l \in UNION {{Receipts[h].logs[k] : k \in {n \in 1..Len(Receipts[h].logs) :
                                                Len(Receipts[h].logs[n].topics) >= 2}} :
                 h \in DOMAIN Receipts}
     |-> parse_backrun_log(l)]

\* line 264: parsed = parse_backrun_log(bl), read from the table (every
\* log that reaches line 264 has passed the filter of lines 249-254)
ParsedBackrun(bl) == ParsedTable[bl]

IsBackrunLog_AnyAddress(l) ==
  /\ Len(l.topics) >= 2
  /\ Lower(l.topics[1]) = BACKRUN_TOPIC0

\* the filter of lines 249-254
IsBackrunLog(l) ==
  /\ Lower(l.address) = TARGET_CONTRACT
  /\ Len(l.topics) >= 2
  /\ Lower(l.topics[1]) = BACKRUN_TOPIC0

BackrunLogs(logs) == SelectSeq(logs, IsBackrunLog)

IsPoolSwap_AnyPool(sl, pool) ==
  /\ sl.topics # <<>>
  /\ Lower(sl.topics[1]) \in SWAP_TOPICS

\* the three tests of lines 289-294
IsPoolSwap(sl, pool) ==
  /\ Lower(sl.address) = pool
  /\ sl.topics # <<>>
  /\ Lower(sl.topics[1]) \in SWAP_TOPICS

IsAfterOrigin_NoHashTest(sl, tx_hash, tx_index) ==
  ~(hex_to_int(sl.transactionIndex) <= tx_index)

IsAfterOrigin_NotStrict(sl, tx_hash, tx_index) ==
  /\ Lower(sl.transactionHash) # tx_hash
  /\ ~(hex_to_int(sl.transactionIndex) < tx_index)

\* the two tests of lines 319-325 (extract_swaps.py 141-147)
IsAfterOrigin(sl, tx_hash, tx_index) ==
  /\ Lower(sl.transactionHash) # tx_hash
  /\ ~(hex_to_int(sl.transactionIndex) <= tx_index)

\* the answer of get_logs(from, to, address, both swap signatures)
get_logs(from_block_hex, to_block_hex, address) ==
  CHOOSE r \in {IF fromto[1] = fromto[2]
                 THEN ChainSwapLogs(fromto[1], address)
                 ELSE [null |-> FALSE, logs |-> <<>>] :
                 fromto \in {<<hex_to_int(from_block_hex), hex_to_int(to_block_hex)>>}} : TRUE

\* "if logs:" / "if not logs: continue": null and the empty list give nothing
LogsOf(resp) == IF resp.null THEN <<>> ELSE resp.logs

CurTxi == i + 1
CurHash_Last == tx_hashes[Len(tx_hashes)]

CurHash == tx_hashes[i + 1]
AfterTxPc_Abort == "exit"

\* the for loop of main goes to the next hash, or ends
AfterTxPc == IF i + 1 < Len(tx_hashes) THEN "receipt" ELSE "exit"
NbHex == hex(loc.block_number + Offsets[loc.oi])

CallRec(method, site, arg, to_block, address) ==
  [method |-> method, site |-> site, txi |-> CurTxi, ev |-> loc.ev,
   arg |-> arg, to_block |-> to_block, address |-> address,
   raised |-> FALSE, err |-> None, at |-> clock + 1]

\* the remote call the flow issues next: a sequence of one call, or empty
\* when the block is already in block_cache
Pending ==
  CASE pc = "receipt" ->
         <<CallRec("eth_getTransactionReceipt", "receipt", CurHash, <<>>, <<>>)>>
    [] pc = "get_tx" ->
         <<CallRec("eth_getTransactionByHash", "tx", CurHash, <<>>, <<>>)>>
    [] pc = "get_block" ->
         IF loc.block_hex \in DOMAIN block_cache THEN <<>>
         ELSE <<CallRec("eth_getBlockByNumber", "block", loc.block_hex, <<>>, <<>>)>>
    [] pc = "same_block" ->
         <<CallRec("eth_getLogs", "same_block", loc.block_hex, loc.block_hex, loc.pool)>>
    [] pc = "nb_block" ->
         IF NbHex \in DOMAIN block_cache THEN <<>>
         ELSE <<CallRec("eth_getBlockByNumber", "nb_block", NbHex, <<>>, <<>>)>>
    [] pc = "nb_logs" ->
         <<CallRec("eth_getLogs", "nb_logs", NbHex, NbHex, loc.pool)>>
    [] OTHER -> <<>>

\* a cache of one entry: the new key evicts the others
CachePut_Forget(cache, key, value) == [k \in {key} |-> value]

CachePut(cache, key, value) ==
  [k \in (DOMAIN cache) \cup {key} |-> IF k = key THEN value ELSE cache[k]]

\* rpc_call returns: the call is issued and one identifier is used
IssueCall ==
  /\ calls' = calls \o Pending
  /\ rpc_id' = IF Pending = <<>> THEN rpc_id ELSE NextRpcId(rpc_id)
  /\ rpc_ncalls' = rpc_ncalls + Len(Pending)
  /\ UNCHANGED rpcLoopVars

\* main calls process_tx a second time for a transaction that returned 0
\* before its receipt was scanned
TxReturn_RetryOnce(n, o, c) ==
  LET again == /\ n = 0
               /\ \A k \in 1..Len(calls) :
                    ~(calls[k].txi = CurTxi /\ calls[k].site = "receipt")
  IN /\ total_backruns' = total_backruns + n
     /\ errors' = IF n = 0 THEN errors + 1 ELSE errors
     /\ out' = o
     /\ clock' = c
     /\ i' = IF again THEN i ELSE i + 1
     /\ pc' = IF again THEN "receipt" ELSE AfterTxPc
     /\ loc' = LocIdle

\* process_tx returned n to main (439-442) having left o in the streams
TxReturn(n, o, c) ==
  /\ total_backruns' = total_backruns + n
  /\ errors' = IF n = 0 THEN errors + 1 ELSE errors
  /\ out' = o
  /\ clock' = c
  /\ i' = i + 1
  /\ pc' = AfterTxPc
  /\ loc' = LocIdle

ErrorRec(reason, at) ==
  [tx_hash |-> CurHash, reason |-> reason, txi |-> CurTxi, at |-> at]

\* the error record is written but the return is missing: the None receipt is
\* subscripted, the TypeError reaches main's except branch
ReceiptNull_NoReturn(o, c) ==
  /\ out' = [o EXCEPT !.errors = Append(@, ErrorRec("exception", c + 1))]
  /\ clock' = c + 1
  /\ errors' = errors + 1
  /\ i' = i + 1
  /\ pc' = AfterTxPc
  /\ loc' = LocIdle
  /\ UNCHANGED total_backruns

\* lines 221-224, the error record being written: return 0
ReceiptNull(o, c) == TxReturn(0, o, c)

\* lines 264-310 for the e-th backrun log: the backrun record, then one
\* record per same-receipt swap of its pool
StartEvent_SwapsFirst(o, c, l, e) ==
  LET logs == l.receipt.logs
      bl == BackrunLogs(logs)[e]
      parsed == ParsedBackrun(bl)
      pool == parsed.pool
      backrun_rec ==
        [tx_hash |-> CurHash, block_number |-> l.block_number,
         block_time |-> l.block_time, backrun_log_index |-> hex_to_int(bl.logIndex),
         pool |-> pool, profit_raw |-> parsed.profit_raw,
         profit_token |-> parsed.profit_token, tx_to |-> l.tx_to,
         tx_input_selector |-> l.tx_input_selector,
         txi |-> CurTxi, ev |-> e,
         at |-> c + 1 + Len(SelectSeq(logs, LAMBDA sl : IsPoolSwap(sl, pool)))]
      swaps == SelectSeq(logs, LAMBDA sl : IsPoolSwap(sl, pool))
      swap_recs ==
        [k \in 1..Len(swaps) |->
           [tx_hash |-> CurHash, block_number |-> l.block_number, pool |-> pool,
            swap_tx_hash |-> CurHash, swap_log_index |-> hex_to_int(swaps[k].logIndex),
            swap_topic0 |-> Lower(swaps[k].topics[1]),
            txi |-> CurTxi, ev |-> e, at |-> c + k]]
  IN [out |-> [o EXCEPT !.backruns = Append(@, backrun_rec),
                        !.tx_swaps = @ \o swap_recs],
      clock |-> c + 1 + Len(swaps),
      loc |-> [l EXCEPT !.ev = e, !.pool = pool, !.profit_raw = parsed.profit_raw,
                        !.profit_token = parsed.profit_token,
                        !.backrun_count = @ + 1, !.n_tx_swaps = Len(swaps),
                        !.n_same_block_after = 0, !.n_next_swaps = 0, !.oi = 0]]

StartEvent(o, c, l, e) ==
  LET logs == l.receipt.logs
      bl == BackrunLogs(logs)[e]
      parsed == ParsedBackrun(bl)
      pool == parsed.pool
      backrun_rec ==
        [tx_hash |-> CurHash, block_number |-> l.block_number,
         block_time |-> l.block_time, backrun_log_index |-> hex_to_int(bl.logIndex),
         pool |-> pool, profit_raw |-> parsed.profit_raw,
         profit_token |-> parsed.profit_token, tx_to |-> l.tx_to,
         tx_input_selector |-> l.tx_input_selector,
         txi |-> CurTxi, ev |-> e, at |-> c + 1]
      swaps == SelectSeq(logs, LAMBDA sl : IsPoolSwap(sl, pool))
      swap_recs ==
        [k \in 1..Len(swaps) |->
           [tx_hash |-> CurHash, block_number |-> l.block_number, pool |-> pool,
            swap_tx_hash |-> CurHash, swap_log_index |-> hex_to_int(swaps[k].logIndex),
            swap_topic0 |-> Lower(swaps[k].topics[1]),
            txi |-> CurTxi, ev |-> e, at |-> c + 1 + k]]
  IN [out |-> [o EXCEPT !.backruns = Append(@, backrun_rec),
                        !.tx_swaps = @ \o swap_recs],
      clock |-> c + 1 + Len(swaps),
      loc |-> [l EXCEPT !.ev = e, !.pool = pool, !.profit_raw = parsed.profit_raw,
                        !.profit_token = parsed.profit_token,
                        !.backrun_count = @ + 1, !.n_tx_swaps = Len(swaps),
                        !.n_same_block_after = 0, !.n_next_swaps = 0, !.oi = 0]]

\* lines 400-405: the stripped lines that are not empty, in lower case
read_hashes(lines) ==
  LET kept == SelectSeq(lines, LAMBDA h : h # <<>>)
  IN [k \in 1..Len(kept) |-> Lower(kept[k])]

InitPrimary ==
  /\ RpcInit
  /\ \E n \in 0..MaxTxs : \E f \in [1..n -> InputLines] :
        tx_hashes = read_hashes(f)
  /\ i = 0
  /\ pc = IF Len(tx_hashes) > 0 THEN "receipt" ELSE "exit"
  /\ loc = LocIdle
  /\ block_cache = <<>>
  /\ out = EmptyOut
  /\ total_backruns = 0
  /\ errors = 0
  /\ calls = <<>>
  /\ clock = 0
  /\ rows = <<>>
  /\ args = [none |-> TRUE]
  /\ done_txs = {}
  /\ total_swaps = 0
  /\ restarts = 0
  /\ outage \in FailureMessages

\* the pending remote call raises (retry budget exhausted): main's except
\* branch writes the error record and goes on with the next transaction
P_Raise ==
  /\ pc \in {"receipt", "get_tx", "get_block", "same_block", "nb_block", "nb_logs"}
  /\ Pending # <<>>
  /\ NFailures < MaxFailures
  /\ calls' = Append(calls, [Pending[1] EXCEPT !.raised = TRUE, !.err = outage])
  /\ out' = [out EXCEPT !.errors = Append(@, ErrorRec(outage, clock + 2))]
  /\ rpc_id' = NextRpcId(rpc_id)
  /\ rpc_ncalls' = rpc_ncalls + 1
  /\ errors' = errors + 1
  /\ clock' = clock + 2
  /\ i' = i + 1
  /\ pc' = AfterTxPc
  /\ loc' = LocIdle
  /\ UNCHANGED <<tx_hashes, block_cache, total_backruns, rpcLoopVars>>
  /\ UNCHANGED <<altVars, outage>>

\* lines 220-224
P_GetReceipt ==
  /\ pc = "receipt"
  /\ IssueCall
  /\ LET receipt == ChainReceipt(CurHash)
     IN IF receipt.null
        THEN ReceiptNull([out EXCEPT !.errors =
                            Append(@, ErrorRec("receipt_null", clock + 2))], clock + 2)
        ELSE /\ loc' = [LocIdle EXCEPT !.receipt = receipt]
             /\ pc' = "get_tx"
             /\ clock' = clock + 1
             /\ UNCHANGED <<i, out, total_backruns, errors>>
  /\ UNCHANGED <<tx_hashes, block_cache>>
  /\ UNCHANGED <<altVars, outage>>

\* a null transaction body handled like a null receipt: an error record and
\* return 0
P_GetTx_StopOnNull ==
  /\ pc = "get_tx"
  /\ IssueCall
  /\ LET tx_obj == ChainTx(CurHash)
     IN IF tx_obj.null
        THEN TxReturn(0, [out EXCEPT !.errors =
                            Append(@, ErrorRec("tx_null", clock + 2))], clock + 2)
        ELSE /\ loc' = [loc EXCEPT
                          !.tx_to = Lower(tx_obj.to),
                          !.tx_input_selector =
                             IF Len(tx_obj.input) >= 10
                             THEN Lower(SubSeq(tx_obj.input, 1, 10))
                             ELSE Lower(tx_obj.input),
                          !.block_number = hex_to_int(loc.receipt.blockNumber),
                          !.block_hex = loc.receipt.blockNumber,
                          !.tx_index = hex_to_int(loc.receipt.transactionIndex)]
             /\ pc' = "get_block"
             /\ clock' = clock + 1
             /\ UNCHANGED <<i, out, total_backruns, errors>>
  /\ UNCHANGED <<tx_hashes, block_cache>>
  /\ UNCHANGED <<altVars, outage>>

\* lines 226-235
P_GetTx ==
  /\ pc = "get_tx"
  /\ IssueCall
  /\ LET tx_obj == ChainTx(CurHash)
         tx_input_raw == IF tx_obj.null THEN Ox ELSE tx_obj.input
     IN loc' = [loc EXCEPT
                  !.tx_to = IF tx_obj.null THEN <<>> ELSE Lower(tx_obj.to),
                  !.tx_input_selector =
                     IF Len(tx_input_raw) >= 10 THEN Lower(SubSeq(tx_input_raw, 1, 10))
                     ELSE Lower(tx_input_raw),
                  !.block_number = hex_to_int(loc.receipt.blockNumber),
                  !.block_hex = loc.receipt.blockNumber,
                  !.tx_index = hex_to_int(loc.receipt.transactionIndex)]
  /\ pc' = "get_block"
  /\ clock' = clock + 1
  /\ UNCHANGED <<tx_hashes, i, block_cache, out, total_backruns, errors>>
  /\ UNCHANGED <<altVars, outage>>

\* lines 237-310: the origin block through the cache, the backrun logs of
\* the receipt, then either the no_backrun_log error or the first event
P_ResolveBlock ==
  /\ pc = "get_block"
  /\ IssueCall
  /\ LET cache == IF loc.block_hex \in DOMAIN block_cache THEN block_cache
                  ELSE CachePut(block_cache, loc.block_hex,
                                ChainBlock(hex_to_int(loc.block_hex)))
         c0 == clock + Len(Pending)
         l1 == [loc EXCEPT !.block_time = BlockTimeOf(cache[loc.block_hex])]
     IN /\ block_cache' = cache
        /\ IF BackrunLogs(loc.receipt.logs) = <<>>
           THEN TxReturn(0, [out EXCEPT !.errors =
                               Append(@, ErrorRec("no_backrun_log", c0 + 1))], c0 + 1)
           ELSE LET st == StartEvent(out, c0, l1, 1)
                IN /\ out' = st.out
                   /\ clock' = st.clock
                   /\ loc' = st.loc
                   /\ pc' = "same_block"
                   /\ UNCHANGED <<i, total_backruns, errors>>
  /\ UNCHANGED tx_hashes
  /\ UNCHANGED <<altVars, outage>>

\* lines 312-344
P_SameBlock ==
  /\ pc = "same_block"
  /\ IssueCall
  /\ LET resp == get_logs(loc.block_hex, loc.block_hex, loc.pool)
         kept == SelectSeq(LogsOf(resp),
                           LAMBDA sl : IsAfterOrigin(sl, CurHash, loc.tx_index))
         recs ==
           [k \in 1..Len(kept) |->
              [origin_tx_hash |-> CurHash, origin_block_number |-> loc.block_number,
               pool |-> loc.pool, observed_block_number |-> loc.block_number,
               observed_block_time |-> loc.block_time,
               swap_tx_hash |-> Lower(kept[k].transactionHash),
               swap_tx_index |-> hex_to_int(kept[k].transactionIndex),
               swap_log_index |-> hex_to_int(kept[k].logIndex),
               swap_topic0 |-> Lower(kept[k].topics[1]),
               txi |-> CurTxi, ev |-> loc.ev, at |-> clock + 1 + k]]
     IN /\ out' = [out EXCEPT !.same_block_swaps = @ \o recs]
        /\ loc' = [loc EXCEPT !.n_same_block_after = Len(kept), !.oi = 1]
        /\ clock' = clock + 1 + Len(kept)
  /\ pc' = "nb_block"
  /\ UNCHANGED <<tx_hashes, i, block_cache, total_backruns, errors>>
  /\ UNCHANGED <<altVars, outage>>

\* lines 349-359
P_NextBlockHeader ==
  /\ pc = "nb_block"
  /\ IssueCall
  /\ LET cache == IF NbHex \in DOMAIN block_cache THEN block_cache
                  ELSE CachePut(block_cache, NbHex, ChainBlock(hex_to_int(NbHex)))
     IN /\ block_cache' = cache
        /\ loc' = [loc EXCEPT !.nb_time = BlockTimeOf(cache[NbHex])]
  /\ clock' = clock + Len(Pending)
  /\ pc' = "nb_logs"
  /\ UNCHANGED <<tx_hashes, i, out, total_backruns, errors>>
  /\ UNCHANGED <<altVars, outage>>

\* lines 361-393: the ranged query of one offset block and its records;
\* after the last offset the summary row, then the next event or the return
P_NextBlockLogs ==
  /\ pc = "nb_logs"
  /\ IssueCall
  /\ LET swap_logs == LogsOf(get_logs(NbHex, NbHex, loc.pool))
         recs ==
           [k \in 1..Len(swap_logs) |->
              [origin_tx_hash |-> CurHash, origin_block_number |-> loc.block_number,
               pool |-> loc.pool,
               observed_block_number |-> hex_to_int(swap_logs[k].blockNumber),
               observed_block_time |-> loc.nb_time,
               swap_tx_hash |-> Lower(swap_logs[k].transactionHash),
               swap_log_index |-> hex_to_int(swap_logs[k].logIndex),
               swap_topic0 |-> Lower(swap_logs[k].topics[1]),
               txi |-> CurTxi, ev |-> loc.ev, offset |-> Offsets[loc.oi],
               at |-> clock + 1 + k]]
         o1 == [out EXCEPT !.next_swaps = @ \o recs]
         c1 == clock + 1 + Len(swap_logs)
         l1 == [loc EXCEPT !.n_next_swaps = @ + Len(swap_logs)]
         row == [tx_hash |-> CurHash, block_number |-> loc.block_number,
                 pool |-> loc.pool, profit_raw |-> loc.profit_raw,
                 profit_token |-> loc.profit_token, tx_to |-> loc.tx_to,
                 tx_input_selector |-> loc.tx_input_selector,
                 n_tx_swaps |-> l1.n_tx_swaps,
                 n_same_block_after |-> l1.n_same_block_after,
                 n_next_swaps |-> l1.n_next_swaps,
                 txi |-> CurTxi, ev |-> loc.ev, at |-> c1 + 1]
         o2 == [o1 EXCEPT !.summary = Append(@, row)]
     IN IF loc.oi < Len(Offsets)
        THEN /\ out' = o1
             /\ clock' = c1
             /\ loc' = [l1 EXCEPT !.oi = @ + 1]
             /\ pc' = "nb_block"
             /\ UNCHANGED <<i, total_backruns, errors>>
        ELSE IF loc.ev < Len(BackrunLogs(loc.receipt.logs))
        THEN LET st == StartEvent(o2, c1 + 1, l1, loc.ev + 1)
             IN /\ out' = st.out
                /\ clock' = st.clock
                /\ loc' = st.loc
                /\ pc' = "same_block"
                /\ UNCHANGED <<i, total_backruns, errors>>
        ELSE TxReturn(loc.backrun_count, o2, c1 + 1)
  /\ UNCHANGED <<tx_hashes, block_cache>>
  /\ UNCHANGED <<altVars, outage>>

\* lines 453-458: the input is exhausted, the files are closed
P_MainExit ==
  /\ pc = "exit"
  /\ pc' = "done"
  /\ UNCHANGED <<rpc_id, rpc_ncalls, rpcLoopVars, tx_hashes, i, loc, block_cache, out,
                 total_backruns, errors, calls, clock>>
  /\ UNCHANGED <<altVars, outage>>

NextPrimary ==
  \/ P_GetReceipt
  \/ P_GetTx
  \/ P_ResolveBlock
  \/ P_SameBlock
  \/ P_NextBlockHeader
  \/ P_NextBlockLogs
  \/ P_Raise
  \/ P_MainExit

SpecPrimary == InitPrimary /\ [][NextPrimary]_vars

(***************************************************************************)
(* The primary flow stopped from outside.  The six files are opened with   *)
(* the default buffering (411-416) and the flow never flushes: what a      *)
(* write() hands over stays in the buffer of its file until the buffer is  *)
(* full or the file is closed (453-455).  A process that is killed leaves  *)
(* in each file an initial part of what was written to it, each file with  *)
(* a length of its own; the model keeps whole records.                     *)
(***************************************************************************)
PrimaryRunning == {"receipt", "get_tx", "get_block", "same_block", "nb_block", "nb_logs"}

\* what the file of a stream holds when kept records of it reached the file
Flushed(stream, kept) == SubSeq(stream, 1, kept)

P_Kill ==
  /\ pc \in PrimaryRunning
  /\ \E kb \in 0..Len(out.backruns), kt \in 0..Len(out.tx_swaps),
        ks \in 0..Len(out.same_block_swaps), kn \in 0..Len(out.next_swaps),
        ke \in 0..Len(out.errors), km \in 0..Len(out.summary) :
        out' = [backruns |-> Flushed(out.backruns, kb),
                tx_swaps |-> Flushed(out.tx_swaps, kt),
                same_block_swaps |-> Flushed(out.same_block_swaps, ks),
                next_swaps |-> Flushed(out.next_swaps, kn),
                errors |-> Flushed(out.errors, ke),
                summary |-> Flushed(out.summary, km)]
  /\ pc' = "killed"
  /\ i' = 0
  /\ loc' = LocIdle
  /\ block_cache' = <<>>
  /\ total_backruns' = 0
  /\ errors' = 0
  /\ calls' = <<>>
  /\ clock' = 0
  /\ rpc_id' = 0
  /\ rpc_ncalls' = 0
  /\ UNCHANGED <<rpcLoopVars, tx_hashes, altVars, outage>>

NextCrash == NextPrimary \/ P_Kill

SpecCrash == InitPrimary /\ [][NextCrash]_vars

(***************************************************************************)
(* Alternate flow: extract_swaps.py, load_input, main and process_tx.      *)
(* A step runs from one remote call to the next.  The process can be       *)
(* stopped between two steps and the run started again: the memory of the  *)
(* process is lost, the output file stays.  A record carries, besides the  *)
(* fields the code writes, the history fields txi (position of the row),   *)
(* ev (position of the swap log among the swap logs of the receipt) and    *)
(* run (the number of starts before the one that wrote it).  The fields    *)
(* raw_topics and raw_data are left out.                                   *)
(***************************************************************************)
\* the run is started again at most this many times
MaxRestarts == 1

\* the lines of the input file a run may be given, each split at "|" and
\* stripped; one line has fewer than four parts, one row names a block that
\* is not the block of the receipt
AltInputLines ==
  { <<"t1", Upper(H_NULL), <<"5">>, <<"1">>>>,
    <<"t2", Upper(H_ONE), <<"1", "4">>, <<"2">>>>,
    <<"t3", H_ONE, <<"1", "3">>, <<"2">>>>,
    <<"t4", Upper(H_TWO), <<"9">>, <<"1">>>>,
    <<"t5", H_BODYLESS, <<"1", "5">>, <<"0">>>>,
    <<"t6", H_TWO>> }

\* load_input on the stripped, split lines
load_input(lines) ==
  LET kept == SelectSeq(lines, LAMBDA parts : ~(Len(parts) < 4))
  IN [k \in 1..Len(kept) |->
        [block_time |-> kept[k][1], tx_hash |-> Lower(kept[k][2]),
         block_number |-> int(kept[k][3]), expected_count |-> int(kept[k][4])]]

\* --topic0 as given on the command line
AltTopics == {V3_SWAP_TOPIC0, Upper(CUSTOM_SWAP_TOPIC0)}

\* addr_lower
addr_lower(a) == Lower(a)

\* the swap logs of block n emitted by address whose first topic is topic0
TopicLogData(n, address, topic0) ==
  LET resp == ChainSwapLogs(n, address)
      t == Lower(topic0)
  IN IF resp.null THEN resp
     ELSE [null |-> FALSE,
           logs |-> SelectSeq(resp.logs, LAMBDA l : Lower(l.topics[1]) = t)]

TopicLogTable ==
  [n \in 9..16, pool \in {PoolP, PoolQ}, t \in AltTopics |-> TopicLogData(n, pool, t)]

\* the answer of eth_getLogs for one block, one address and topics [[topic0]]
alt_get_logs(block_hex, address, topic0) ==
  LET n == hex_to_int(block_hex)
  IN IF <<n, address, topic0>> \in DOMAIN TopicLogTable
     THEN TopicLogTable[n, address, topic0]
     ELSE TopicLogData(n, address, topic0)

\* get_tx_from: the sender of a transaction, "" when the body is null
get_tx_from(tx_hash) ==
  LET tx_obj == ChainTx(Lower(tx_hash))
  IN IF tx_obj.null THEN <<>> ELSE addr_lower(tx_obj.from)

\* lines 114-117
SwapLogsOf(receipt, topic0) ==
  SelectSeq(receipt.logs,
            LAMBDA l : l.topics # <<>> /\ Lower(l.topics[1]) = Lower(topic0))

AltLocIdle ==
  [receipt |-> Null, tx_index |-> 0, swapper |-> <<>>, ev |-> 0, pool |-> <<>>,
   sl_index |-> 0, oi |-> 0, queue |-> <<>>, followup_swaps |-> <<>>, count |-> 0]

AltRow == rows[i + 1]
AltAfterTxPc == IF i + 1 < Len(rows) THEN "a_receipt" ELSE "a_exit"

\* line 163: nb = block_number + offset, block_number being the argument of
\* process_tx, that is the block_number of the input row (262)
NextAnchor(row, receipt) == row.block_number

\* line 132: same_block_hex = receipt["blockNumber"]
SameBlockHex(row, receipt) == receipt.blockNumber

AltNbHex == hex(NextAnchor(AltRow, loc.receipt) + Offsets[loc.oi])

AltCallRec(method, site, arg, to_block, address) ==
  [method |-> method, site |-> site, txi |-> i + 1, ev |-> loc.ev,
   arg |-> arg, to_block |-> to_block, address |-> address,
   raised |-> FALSE, err |-> None, at |-> clock + 1]

\* the remote call the alternate flow issues next
A_Pending ==
  CASE pc = "a_receipt" ->
         AltCallRec("eth_getTransactionReceipt", "a_receipt", AltRow.tx_hash, <<>>, <<>>)
    [] pc = "a_same_block" ->
         AltCallRec("eth_getLogs", "a_same_block", SameBlockHex(AltRow, loc.receipt),
                    SameBlockHex(AltRow, loc.receipt), loc.pool)
    [] pc = "a_from" ->
         AltCallRec("eth_getTransactionByHash", "a_from",
                    loc.queue[1].transactionHash, <<>>, <<>>)
    [] pc = "a_nb_logs" ->
         AltCallRec("eth_getLogs", "a_nb_logs", AltNbHex, AltNbHex, loc.pool)

A_IssueCall ==
  /\ calls' = Append(calls, A_Pending)
  /\ rpc_id' = NextRpcId(rpc_id)
  /\ rpc_ncalls' = rpc_ncalls + 1
  /\ clock' = clock + 1
  /\ UNCHANGED rpcLoopVars

\* process_tx returned n to main (260-266) having left o in the file
AltReturn(n, o) ==
  /\ total_swaps' = total_swaps + n
  /\ out' = o
  /\ i' = i + 1
  /\ pc' = AltAfterTxPc
  /\ loc' = AltLocIdle
  /\ UNCHANGED errors

\* the locals at the head of "for sl in swap_logs" for the e-th swap log
StartSwap(l, e) ==
  LET sl == SwapLogsOf(l.receipt, args.topic0)[e]
  IN [l EXCEPT !.ev = e, !.pool = addr_lower(sl.address),
               !.sl_index = hex_to_int(sl.logIndex), !.oi = 0, !.queue = <<>>,
               !.followup_swaps = <<>>]

\* a window of the swap log l.ev is through: the next offset, or after the
\* last one the record (186-200) and the next swap log, or the return (202)
AltAdvance(l) ==
  LET record ==
        [original_tx |-> Lower(AltRow.tx_hash), block_number |-> AltRow.block_number,
         block_time |-> AltRow.block_time, pool |-> l.pool,
         swap_log_index |-> l.sl_index, swapper |-> l.swapper,
         n_followup_swaps |-> Len(l.followup_swaps),
         followup_swaps |-> l.followup_swaps,
         txi |-> i + 1, ev |-> l.ev, run |-> restarts]
      o1 == [out EXCEPT !.followups = Append(@, record)]
      l1 == [l EXCEPT !.count = @ + 1]
  IN IF l.oi < Len(Offsets)
     THEN /\ loc' = [l EXCEPT !.oi = @ + 1, !.queue = <<>>]
          /\ pc' = "a_nb_logs"
          /\ UNCHANGED <<i, out, total_swaps, errors>>
     ELSE IF l.ev < Len(SwapLogsOf(l.receipt, args.topic0))
     THEN /\ loc' = StartSwap(l1, l.ev + 1)
          /\ pc' = "a_same_block"
          /\ out' = o1
          /\ UNCHANGED <<i, total_swaps, errors>>
     ELSE AltReturn(l1.count, o1)

\* the dict appended to followup_swaps for the log fl (151-159, 176-184)
Followup(fl, block_offset, fu_swapper) ==
  [tx_hash |-> Lower(fl.transactionHash), block_number |-> hex_to_int(fl.blockNumber),
   block_offset |-> block_offset, log_index |-> hex_to_int(fl.logIndex),
   swapper |-> fu_swapper]

\* the output file opened "w" whatever done_txs holds
MainStart_Truncate(file) ==
  LET done == {file[k].original_tx : k \in 1..Len(file)}
  IN /\ done_txs' = done
     /\ out' = [followups |-> <<>>]
     /\ total_swaps' = 0
     /\ errors' = 0
     /\ i' = 0
     /\ pc' = IF Len(rows) > 0 THEN "a_receipt" ELSE "a_exit"
     /\ loc' = AltLocIdle

\* lines 236-251: done_txs read from the output file, the file opened "a"
\* when done_txs is not empty and "w" (truncated) otherwise
MainStart(file) ==
  LET done == {file[k].original_tx : k \in 1..Len(file)}
  IN /\ done_txs' = done
     /\ out' = [followups |-> IF done # {} THEN file ELSE <<>>]
     /\ total_swaps' = 0
     /\ errors' = 0
     /\ i' = 0
     /\ pc' = IF Len(rows) > 0 THEN "a_receipt" ELSE "a_exit"
     /\ loc' = AltLocIdle

InitAlt ==
  /\ RpcInit
  /\ \E n \in 0..MaxTxs : \E f \in [1..n -> AltInputLines] : rows = load_input(f)
  /\ \E t \in AltTopics : args = [none |-> FALSE, topic0 |-> t]
  /\ done_txs = {}
  /\ out = [followups |-> <<>>]
  /\ total_swaps = 0
  /\ errors = 0
  /\ i = 0
  /\ pc = IF Len(rows) > 0 THEN "a_receipt" ELSE "a_exit"
  /\ loc = AltLocIdle
  /\ calls = <<>>
  /\ clock = 0
  /\ restarts = 0
  /\ tx_hashes = <<>>
  /\ block_cache = <<>>
  /\ total_backruns = 0
  /\ outage = None

AlreadyDone_Never(row, done) == FALSE

\* line 257: row["tx_hash"] in done_txs
AlreadyDone(row, done) == row.tx_hash \in done

AltRunning == {"a_receipt", "a_same_block", "a_from", "a_nb_logs"}

\* lines 257-258: the row is in done_txs
A_Skip ==
  /\ pc = "a_receipt"
  /\ AlreadyDone(AltRow, done_txs)
  /\ i' = i + 1
  /\ pc' = AltAfterTxPc
  /\ UNCHANGED <<rpcVars, primVars, loc, out, errors, calls, clock, altVars>>

\* lines 102-126
A_GetReceipt ==
  /\ pc = "a_receipt"
  /\ ~AlreadyDone(AltRow, done_txs)
  /\ A_IssueCall
  /\ LET receipt == ChainReceipt(AltRow.tx_hash)
     IN IF receipt.null
        THEN AltReturn(0, out)
        ELSE IF SwapLogsOf(receipt, args.topic0) = <<>>
        THEN AltReturn(0, out)
        ELSE /\ loc' = StartSwap([AltLocIdle EXCEPT
                                    !.receipt = receipt,
                                    !.tx_index = hex_to_int(receipt.transactionIndex),
                                    !.swapper = addr_lower(receipt.from)], 1)
             /\ pc' = "a_same_block"
             /\ UNCHANGED <<i, out, total_swaps, errors>>
  /\ UNCHANGED <<primVars, rows, args, done_txs, restarts>>

\* lines 132-147: the same-block query and its two tests; the logs kept wait
\* for the lookup of their sender
A_SameBlock ==
  /\ pc = "a_same_block"
  /\ A_IssueCall
  /\ LET resp == alt_get_logs(SameBlockHex(AltRow, loc.receipt), loc.pool, args.topic0)
         kept == SelectSeq(LogsOf(resp),
                           LAMBDA fl : IsAfterOrigin(fl, Lower(AltRow.tx_hash),
                                                     loc.tx_index))
     IN IF kept # <<>>
        THEN /\ loc' = [loc EXCEPT !.queue = kept]
             /\ pc' = "a_from"
             /\ UNCHANGED <<i, out, total_swaps, errors>>
        ELSE AltAdvance(loc)
  /\ UNCHANGED <<primVars, rows, args, done_txs, restarts>>

\* lines 149-159 and 174-184: the sender of one follow-up log is looked up
\* and the log joins followup_swaps
A_FollowupFrom ==
  /\ pc = "a_from"
  /\ A_IssueCall
  /\ LET fl == loc.queue[1]
         offset == IF loc.oi = 0 THEN 0 ELSE Offsets[loc.oi]
         l1 == [loc EXCEPT !.queue = Tail(@),
                           !.followup_swaps =
                              Append(@, Followup(fl, offset,
                                                 get_tx_from(fl.transactionHash)))]
     IN IF l1.queue # <<>>
        THEN /\ loc' = l1
             /\ pc' = "a_from"
             /\ UNCHANGED <<i, out, total_swaps, errors>>
        ELSE AltAdvance(l1)
  /\ UNCHANGED <<primVars, rows, args, done_txs, restarts>>

\* lines 162-173: the query of one offset block; every log returned waits
\* for the lookup of its sender
A_NextBlockLogs ==
  /\ pc = "a_nb_logs"
  /\ A_IssueCall
  /\ LET fut_logs == LogsOf(alt_get_logs(AltNbHex, loc.pool, args.topic0))
     IN IF fut_logs # <<>>
        THEN /\ loc' = [loc EXCEPT !.queue = fut_logs]
             /\ pc' = "a_from"
             /\ UNCHANGED <<i, out, total_swaps, errors>>
        ELSE AltAdvance(loc)
  /\ UNCHANGED <<primVars, rows, args, done_txs, restarts>>

\* lines 267-269: the pending remote call raises; main counts the error and
\* goes on with the next row, nothing is written
A_Raise ==
  /\ pc \in AltRunning
  /\ NFailures < MaxFailures
  /\ pc = "a_receipt" => ~AlreadyDone(AltRow, done_txs)
  /\ calls' = Append(calls, [A_Pending EXCEPT !.raised = TRUE])
  /\ rpc_id' = NextRpcId(rpc_id)
  /\ rpc_ncalls' = rpc_ncalls + 1
  /\ clock' = clock + 1
  /\ errors' = errors + 1
  /\ i' = i + 1
  /\ pc' = AltAfterTxPc
  /\ loc' = AltLocIdle
  /\ UNCHANGED <<rpcLoopVars, primVars, out, rows, args, done_txs, total_swaps,
                 restarts>>

\* lines 275-276
A_MainExit ==
  /\ pc = "a_exit"
  /\ pc' = "a_done"
  /\ UNCHANGED <<rpcVars, primVars, i, loc, out, errors, calls, clock, altVars>>

\* the process is stopped between two remote calls: its memory is gone, the
\* records written (each flushed, 198-199) stay in the file
A_Kill ==
  /\ pc \in AltRunning
  /\ pc' = "a_killed"
  /\ i' = 0
  /\ loc' = AltLocIdle
  /\ calls' = <<>>
  /\ clock' = 0
  /\ errors' = 0
  /\ total_swaps' = 0
  /\ done_txs' = {}
  /\ rpc_id' = 0
  /\ rpc_ncalls' = 0
  /\ UNCHANGED <<rpcLoopVars, primVars, out, rows, args, restarts>>

\* the tool is run again over the same input and the same output path
A_Restart ==
  /\ pc \in {"a_killed", "a_done"}
  /\ restarts < MaxRestarts
  /\ restarts' = restarts + 1
  /\ MainStart(out.followups)
  /\ calls' = <<>>
  /\ clock' = 0
  /\ rpc_id' = 0
  /\ rpc_ncalls' = 0
  /\ UNCHANGED <<rpcLoopVars, primVars, rows, args>>

NextAlt ==
  \/ A_Skip
  \/ A_GetReceipt
  \/ A_SameBlock
  \/ A_FollowupFrom
  \/ A_NextBlockLogs
  \/ A_Raise
  \/ A_MainExit
  \/ A_Kill
  \/ A_Restart

SpecAlt == InitAlt /\ [][NextAlt]_vars

(***************************************************************************)
(* Both flows: a run of the primary flow or a run of the alternate flow.   *)
(***************************************************************************)
InitFlows == InitPrimary \/ InitAlt

NextFlows == NextPrimary \/ NextAlt

SpecFlows == InitFlows /\ [][NextFlows]_vars

(***************************************************************************)
(* Runs that nothing stops from outside.  Each flow is one thread: a step  *)
(* is a blocking remote call that returns or raises (every attempt has a   *)
(* timeout, 71 / 52, and the attempts are at most the retry budget), then  *)
(* straight-line code up to the next call; a step that can be taken is     *)
(* taken.  The tool can be run again after a run has ended.                *)
(***************************************************************************)
AltStep ==
  \/ A_Skip
  \/ A_GetReceipt
  \/ A_SameBlock
  \/ A_FollowupFrom
  \/ A_NextBlockLogs
  \/ A_Raise
  \/ A_MainExit

RunAgain == pc = "a_done" /\ A_Restart

NextLive == NextPrimary \/ AltStep \/ RunAgain

SpecLive ==
  InitFlows /\ [][NextLive]_vars /\ WF_vars(NextPrimary) /\ WF_vars(AltStep)

(***************************************************************************)
(* The decoders on their own: args holds the raw log a decoder is called   *)
(* with, out the function called and its outcome.                          *)
(***************************************************************************)
Word(c) == Rep(c, 64)

\* data payloads: 0, 31, 32, 64, 128, 159, 160, 160, 192 and 288 bytes, one
\* without the 0x prefix, and two that are no hex encoding of bytes
DecodePayloads ==
  { Ox,
    Ox \o Rep("0", 62),
    Ox \o Word("f"),
    Word("8") \o Word("7"),
    Ox \o Rep("0", 192) \o Word("F"),
    Ox \o Rep("1", 318),
    Ox \o Word("f") \o Word("0") \o Word("9") \o Word("8") \o Word("f"),
    BackrunData(<<"0", "3", "e", "8">>, "C"),
    Ox \o Rep("0", 192) \o <<"8">> \o Rep("0", 63) \o Word("1") \o Word("2"),
    Ox \o Word("1") \o Word("2") \o Word("3") \o Word("4") \o Word("5") \o Word("6")
       \o Word("7") \o Word("8") \o Word("9"),
    Ox \o <<"1">>,
    Ox \o <<"z", "z">> }

DecodeFirstTopics == {V3_SWAP_TOPIC0, Upper(CUSTOM_SWAP_TOPIC0), BACKRUN_TOPIC0}

DecodeTopicLists ==
  {<<>>} \cup UNION {{<<t>>, <<t, TopicDirty>>, <<t, TopicDirty, TopicFor("b")>>} :
                       t \in DecodeFirstTopics}

DecodeLogs ==
  {Log(PoolP, ts, d, Q(1), H_ONE, Q(1), Q(14)) : ts \in DecodeTopicLists, d \in DecodePayloads}

NotCalled == [called |-> FALSE]

Called(r) == [called |-> TRUE, result |-> r]

InitDecode ==
  /\ RpcInit
  /\ tx_hashes = <<>>
  /\ i = 0
  /\ pc = "d_call"
  /\ loc = [none |-> TRUE]
  /\ block_cache = <<>>
  /\ out = [decode_v3_swap |-> NotCalled, decode_custom_swap |-> NotCalled,
            decode_swap |-> NotCalled, parse_backrun_log |-> NotCalled]
  /\ total_backruns = 0
  /\ errors = 0
  /\ calls = <<>>
  /\ clock = 0
  /\ rows = <<>>
  /\ \E l \in DecodeLogs : args = [none |-> FALSE, log_entry |-> l]
  /\ done_txs = {}
  /\ total_swaps = 0
  /\ restarts = 0
  /\ outage = None

DecodeFrame ==
  UNCHANGED <<rpcVars, tx_hashes, i, loc, block_cache, total_backruns, errors, calls,
              clock, rows, args, done_txs, total_swaps, restarts, outage>>

\* the decoders are called in any order, each once
D_DecodeV3 ==
  /\ pc = "d_call"
  /\ ~out.decode_v3_swap.called
  /\ out' = [out EXCEPT !.decode_v3_swap = Called(Returned(decode_v3_swap(args.log_entry)))]
  /\ UNCHANGED pc
  /\ DecodeFrame

D_DecodeCustom ==
  /\ pc = "d_call"
  /\ ~out.decode_custom_swap.called
  /\ out' = [out EXCEPT !.decode_custom_swap = Called(Returned(decode_custom_swap(args.log_entry)))]
  /\ UNCHANGED pc
  /\ DecodeFrame

D_DecodeSwap ==
  /\ pc = "d_call"
  /\ ~out.decode_swap.called
  /\ out' = [out EXCEPT !.decode_swap = Called(decode_swap(args.log_entry))]
  /\ UNCHANGED pc
  /\ DecodeFrame

D_ParseBackrun ==
  /\ pc = "d_call"
  /\ ~out.parse_backrun_log.called
  /\ out' = [out EXCEPT !.parse_backrun_log =
               Called(IF parse_backrun_log_raises(args.log_entry) # None
                      THEN Raised(parse_backrun_log_raises(args.log_entry))
                      ELSE Returned(parse_backrun_log(args.log_entry)))]
  /\ UNCHANGED pc
  /\ DecodeFrame

NextDecode == D_DecodeV3 \/ D_DecodeCustom \/ D_DecodeSwap \/ D_ParseBackrun

SpecDecode == InitDecode /\ [][NextDecode]_vars

(***************************************************************************)
(* Claims about the Query Client, checked under SpecRpc.                   *)
(***************************************************************************)
TraceSends == SelectSeq(rpc_trace, LAMBDA e : e.ev = "send")
TraceFails == SelectSeq(rpc_trace, LAMBDA e : e.ev = "fail")
FailsBefore(p) == Cardinality({q \in 1..(p - 1) : rpc_trace[q].ev = "fail"})

\* C1: a call with retry budget N makes at most N attempts; a successful
\* attempt is the last one and the call returns at it; when all N attempts
\* have failed the call raises the failure of the N-th attempt; once the call
\* has returned or raised no further attempt can be made.
Thm_C1_RetryBudget ==
  /\ Len(TraceSends) <= rpc_retries
  /\ \A k \in 1..Len(TraceSends) : TraceSends[k].att = k
  /\ \A k \in 1..Len(TraceFails) : TraceFails[k].att = k
  /\ Len(TraceSends) - 1 <= Len(TraceFails)
  /\ Len(TraceFails) <= Len(TraceSends)
  /\ (Len(TraceSends) > Len(TraceFails)) =>
        /\ rpc_pc = "returned"
        /\ rpc_out.kind = "result"
        /\ rpc_out.att = Len(TraceSends)
  /\ (rpc_retries > 0 /\ Len(TraceFails) = rpc_retries) <=> (rpc_pc = "raised")
  /\ rpc_pc = "raised" =>
        rpc_out = [kind |-> "raise", att |-> rpc_retries,
                   err |-> TraceFails[rpc_retries].kind]
  /\ rpc_pc \in {"returned", "raised"} =>
        ~ENABLED (\E resp \in Responses : RpcAttempt(resp))

\* C1 witness: a call with the default budget whose five attempts all failed
\* and which raised.
Wit_C1_Exhausted ==
  /\ rpc_pc = "raised"
  /\ rpc_retries = MAX_RETRIES
  /\ Len(TraceSends) = MAX_RETRIES

\* C2: the wait after failed attempt k (k = 1 .. N-1) is base^k, k being the
\* number of attempts failed so far; every failed attempt but the N-th is
\* followed by that wait and then by the next attempt; nothing follows the
\* N-th failed attempt or a successful attempt.
Thm_C2_BackoffExponent ==
  /\ \A p \in 1..Len(rpc_trace) :
        rpc_trace[p].ev = "sleep" =>
          LET k == FailsBefore(p)
          IN /\ k \in 1..(rpc_retries - 1)
             /\ rpc_trace[p].wait.num = Pow(BACKOFF_BASE_NUM, k)
             /\ rpc_trace[p].wait.den = Pow(BACKOFF_BASE_DEN, k)
             /\ rpc_trace[p - 1].ev = "fail"
             /\ p < Len(rpc_trace) => rpc_trace[p + 1].ev = "send"
  /\ \A p \in 1..Len(rpc_trace) :
        rpc_trace[p].ev = "fail" =>
          IF rpc_trace[p].att < rpc_retries
          THEN p < Len(rpc_trace) /\ rpc_trace[p + 1].ev = "sleep"
          ELSE p = Len(rpc_trace)
  /\ (rpc_pc = "returned" /\ Len(rpc_trace) > 0) => Last(rpc_trace).ev = "send"

\* C2 witness: a call that succeeded at its fifth attempt, after the waits
\* base^1 .. base^4.
Wit_C2_FourWaits ==
  /\ rpc_pc = "returned"
  /\ Len(TraceFails) = 4
  /\ \E p \in 1..Len(rpc_trace) :
        rpc_trace[p].ev = "sleep" /\ rpc_trace[p].wait = [num |-> 81, den |-> 16]

\* C3: a failed attempt is handled the same way whether the transport failed
\* or the body carried an "error" field: it used one attempt of the budget,
\* before the last attempt it is followed by the wait base^k and a retry, as
\* the last attempt its failure is what the call raises; a body that carries
\* an "error" field never provides the returned result.
Thm_C3_ErrorFieldIsFailure ==
  /\ \A p \in 1..Len(rpc_trace) :
        (rpc_trace[p].ev = "fail" /\ rpc_trace[p].kind \in {"rpc_error", "transport"}) =>
          /\ rpc_trace[p].att <= rpc_retries
          /\ rpc_trace[p - 1].ev = "send" /\ rpc_trace[p - 1].att = rpc_trace[p].att
          /\ IF rpc_trace[p].att < rpc_retries
             THEN /\ p < Len(rpc_trace)
                  /\ rpc_trace[p + 1] =
                       [ev |-> "sleep", att |-> rpc_trace[p].att,
                        wait |-> [num |-> Pow(BACKOFF_BASE_NUM, rpc_trace[p].att),
                                  den |-> Pow(BACKOFF_BASE_DEN, rpc_trace[p].att)]]
             ELSE /\ p = Len(rpc_trace)
                  /\ rpc_pc = "raised"
                  /\ rpc_out = [kind |-> "raise", att |-> rpc_trace[p].att,
                                err |-> rpc_trace[p].kind]
  /\ rpc_out.kind = "result" => ~rpc_out.from_error_body

\* C3 witness: a call that raised the "error"-field failure of its last
\* attempt after an earlier "error"-field failure was retried.
Wit_C3_ErrorFieldRaised ==
  /\ rpc_pc = "raised"
  /\ rpc_out.err = "rpc_error"
  /\ rpc_retries >= 2
  /\ TraceFails[1].kind = "rpc_error"

\* C4 as stated: every envelope sent, retries included, has an identifier
\* strictly greater than that of every envelope sent before it.
Orig_C4_IdPerAttempt ==
  \A x, y \in 1..Len(rpc_sent) : x < y => rpc_sent[x].id < rpc_sent[y].id

\* C4 amended: the identifier is taken once per call: the attempts of one
\* call all send the same identifier, and the identifier of a call is
\* strictly greater than that of every earlier call.
Thm_C4_IdPerCall ==
  \A x, y \in 1..Len(rpc_sent) :
     x < y =>
       /\ rpc_sent[x].call = rpc_sent[y].call => rpc_sent[x].id = rpc_sent[y].id
       /\ rpc_sent[x].call < rpc_sent[y].call => rpc_sent[x].id < rpc_sent[y].id
       /\ rpc_sent[x].call <= rpc_sent[y].call

\* C4 witness: a retried call (two envelopes) followed by an attempt of a
\* later call.
Wit_C4_RetryThenNextCall ==
  \E x, y, z \in 1..Len(rpc_sent) :
     /\ x < y /\ y < z
     /\ rpc_sent[x].call = rpc_sent[y].call
     /\ rpc_sent[y].call < rpc_sent[z].call

(***************************************************************************)
(* Claims about the primary flow, checked under SpecPrimary.               *)
(***************************************************************************)
StreamOf(name, txi, ev) ==
  SelectSeq(out[name], LAMBDA r : r.txi = txi /\ r.ev = ev)

RecordsOfTx(name, txi) == SelectSeq(out[name], LAMBDA r : r.txi = txi)

CallsOfTx(txi) == SelectSeq(calls, LAMBDA c : c.txi = txi)

NextQueries(txi, ev) ==
  SelectSeq(calls, LAMBDA c : c.site = "nb_logs" /\ c.txi = txi /\ c.ev = ev)

OriginReceipt(txi) == ChainReceipt(tx_hashes[txi])

Thm_C8_ReceiptNull ==
  \A t \in 1..Len(tx_hashes) :
    (/\ OriginReceipt(t).null
     /\ \E c \in 1..Len(calls) :
          calls[c].txi = t /\ calls[c].site = "receipt" /\ ~calls[c].raised)
    =>
    /\ Len(RecordsOfTx("errors", t)) = 1
    /\ RecordsOfTx("errors", t)[1].tx_hash = tx_hashes[t]
    /\ RecordsOfTx("errors", t)[1].reason = "receipt_null"
    /\ \A name \in {"backruns", "tx_swaps", "same_block_swaps", "next_swaps", "summary"} :
         RecordsOfTx(name, t) = <<>>
    /\ Len(CallsOfTx(t)) = 1
    /\ CallsOfTx(t)[1].method = "eth_getTransactionReceipt"

\* C8 witness: a receipt-less transaction has been handled and the run went
\* on to a later transaction.
Wit_C8_ReceiptNullHandled ==
  /\ Len(tx_hashes) = 2
  /\ OriginReceipt(1).null
  /\ RecordsOfTx("errors", 1) # <<>>
  /\ RecordsOfTx("errors", 1)[1].reason = "receipt_null"
  /\ i = 2

HasBackrunLog(receipt) ==
  \E k \in 1..Len(receipt.logs) :
    /\ Lower(receipt.logs[k].address) = TARGET_CONTRACT
    /\ Len(receipt.logs[k].topics) >= 2
    /\ Lower(receipt.logs[k].topics[1]) = BACKRUN_TOPIC0

\* C9: a transaction whose receipt is present and holds no log of the target
\* contract with at least two topics and the backrun signature first has no
\* backrun, swap or summary record and no ranged log query, and it is
\* processed once (one receipt query, at most one error record); once its
\* receipt has been scanned (its transaction-body and block-header calls
\* having returned) its one error record has the reason "no_backrun_log".
Thm_C9_NoBackrunLog ==
  \A t \in 1..Len(tx_hashes) :
    (~OriginReceipt(t).null /\ ~HasBackrunLog(OriginReceipt(t)))
    =>
    /\ \A name \in {"backruns", "tx_swaps", "same_block_swaps", "next_swaps", "summary"} :
         RecordsOfTx(name, t) = <<>>
    /\ \A c \in 1..Len(calls) : calls[c].txi = t => calls[c].method # "eth_getLogs"
    /\ Len(SelectSeq(CallsOfTx(t), LAMBDA c : c.site = "receipt")) <= 1
    /\ Len(RecordsOfTx("errors", t)) <= 1
    /\ (t <= i /\ \A c \in 1..Len(calls) : calls[c].txi = t => ~calls[c].raised)
         => /\ Len(RecordsOfTx("errors", t)) = 1
            /\ RecordsOfTx("errors", t)[1].tx_hash = tx_hashes[t]
            /\ RecordsOfTx("errors", t)[1].reason = "no_backrun_log"

\* C9 witness: a transaction without backrun log has been handled with the
\* error no_backrun_log, and the run is over.
Wit_C9_NoBackrunLogHandled ==
  /\ pc = "done"
  /\ \E t \in 1..Len(tx_hashes) :
       /\ ~OriginReceipt(t).null
       /\ ~HasBackrunLog(OriginReceipt(t))
       /\ RecordsOfTx("errors", t) # <<>>
       /\ RecordsOfTx("errors", t)[1].reason = "no_backrun_log"

PoolSwapsCount(receipt, pool) ==
  Cardinality({k \in 1..Len(receipt.logs) :
                 /\ Lower(receipt.logs[k].address) = pool
                 /\ receipt.logs[k].topics # <<>>
                 /\ Lower(receipt.logs[k].topics[1]) \in {V3_SWAP_TOPIC0, CUSTOM_SWAP_TOPIC0}})

\* PoolSwapsCount on the receipts and the pools of the chain, computed once
PoolSwapsTable ==
  [h \in DOMAIN Receipts, pool \in {PoolP, PoolQ} |-> PoolSwapsCount(Receipts[h], pool)]

PoolSwapsInReceipt(receipt, pool) ==
  LET h == Lower(receipt.logs[1].transactionHash)
  IN IF receipt.logs # <<>> /\ <<h, pool>> \in DOMAIN PoolSwapsTable
                            /\ Receipts[h] = receipt
     THEN PoolSwapsTable[h, pool]
     ELSE PoolSwapsCount(receipt, pool)

EventCompleted(txi, ev) ==
  \E c \in 1..Len(calls) :
    /\ calls[c].txi = txi /\ calls[c].ev = ev /\ calls[c].site = "nb_logs"
    /\ hex_to_int(calls[c].arg) = hex_to_int(OriginReceipt(txi).blockNumber) + 3
    /\ ~calls[c].raised

\* C10: a backrun event has one summary row once its processing has
\* completed and none before; the three counts of the row are the numbers of
\* records written for the event to the same-transaction stream (the receipt
\* logs of the event's pool with a swap signature), to the same-block-after
\* stream and to the next-blocks stream.
Thm_C10_SummaryCounts ==
  /\ \A b \in 1..Len(out.backruns) :
       LET ev == out.backruns[b]
           rows_ == StreamOf("summary", ev.txi, ev.ev)
       IN /\ Len(StreamOf("backruns", ev.txi, ev.ev)) = 1
          /\ Len(rows_) = IF EventCompleted(ev.txi, ev.ev) THEN 1 ELSE 0
          /\ \A r \in 1..Len(rows_) :
               /\ rows_[r].tx_hash = ev.tx_hash
               /\ rows_[r].block_number = ev.block_number
               /\ rows_[r].pool = ev.pool
               /\ rows_[r].profit_raw = ev.profit_raw
               /\ rows_[r].profit_token = ev.profit_token
               /\ rows_[r].tx_to = ev.tx_to
               /\ rows_[r].tx_input_selector = ev.tx_input_selector
               /\ rows_[r].n_tx_swaps = Len(StreamOf("tx_swaps", ev.txi, ev.ev))
               /\ rows_[r].n_tx_swaps = PoolSwapsInReceipt(OriginReceipt(ev.txi), ev.pool)
               /\ rows_[r].n_same_block_after =
                    Len(StreamOf("same_block_swaps", ev.txi, ev.ev))
               /\ rows_[r].n_next_swaps = Len(StreamOf("next_swaps", ev.txi, ev.ev))
  /\ \A r \in 1..Len(out.summary) :
       StreamOf("backruns", out.summary[r].txi, out.summary[r].ev) # <<>>

\* C10 witness: the scenario of the spec: one backrun log on pool P with
\* profit 1000, two same-receipt swaps of P, no same-block-after match, one
\* match in block+2: the row [X, block, P, 1000, token, to, selector, 2, 0, 1].
Wit_C10_Scenario ==
  \E r \in 1..Len(out.summary) :
    /\ out.summary[r].tx_hash = H_ONE
    /\ out.summary[r].block_number = 14
    /\ out.summary[r].pool = PoolP
    /\ out.summary[r].profit_raw = <<"1", "0", "0", "0">>
    /\ out.summary[r].profit_token = Ox \o Rep("c", 40)
    /\ out.summary[r].tx_to = TARGET_CONTRACT
    /\ out.summary[r].tx_input_selector = Ox \o <<"a", "b", "c", "d", "1", "2", "3", "4">>
    /\ out.summary[r].n_tx_swaps = 2
    /\ out.summary[r].n_same_block_after = 0
    /\ out.summary[r].n_next_swaps = 1
    /\ \E n \in 1..Len(out.next_swaps) :
         /\ out.next_swaps[n].txi = out.summary[r].txi
         /\ out.next_swaps[n].observed_block_number = 16

(***************************************************************************)
(* Claims about the same-block-after window of both flows, checked under   *)
(* SpecFlows, and about the alternate flow, checked under SpecAlt.         *)
(***************************************************************************)
\* the logs of a same-block answer that pass both tests: the hash, lower
\* case, is not the origin's and the transaction index is greater than the
\* origin's
PassBothTests(logs, origin_hash, origin_index) ==
  SelectSeq(logs, LAMBDA l : /\ Lower(l.transactionHash) # Lower(origin_hash)
                             /\ hex_to_int(l.transactionIndex) > origin_index)

SameBlockKeys(logs) ==
  [k \in 1..Len(logs) |->
     <<Lower(logs[k].transactionHash), hex_to_int(logs[k].logIndex)>>]

PrimarySameBlockOk ==
  \A b \in 1..Len(out.backruns) :
    LET ev == out.backruns[b]
        receipt == OriginReceipt(ev.txi)
        origin_index == hex_to_int(receipt.transactionIndex)
        written == StreamOf("same_block_swaps", ev.txi, ev.ev)
        returned == \E c \in 1..Len(calls) :
                      /\ calls[c].site = "same_block" /\ ~calls[c].raised
                      /\ calls[c].txi = ev.txi /\ calls[c].ev = ev.ev
        answer == LogsOf(ChainSwapLogs(hex_to_int(receipt.blockNumber), ev.pool))
        passing == PassBothTests(answer, tx_hashes[ev.txi], origin_index)
    IN /\ \A r \in 1..Len(written) :
            /\ written[r].swap_tx_hash # tx_hashes[ev.txi]
            /\ written[r].swap_tx_hash # written[r].origin_tx_hash
            /\ ~(written[r].swap_tx_index <= origin_index)
       /\ ~returned => written = <<>>
       /\ returned =>
            /\ Len(written) = Len(passing)
            /\ \A r \in 1..Len(passing) :
                 /\ written[r].swap_tx_hash = Lower(passing[r].transactionHash)
                 /\ written[r].swap_tx_index = hex_to_int(passing[r].transactionIndex)
                 /\ written[r].swap_log_index = hex_to_int(passing[r].logIndex)

\* the follow-ups of block_offset 0 in list, as (hash, log index)
SameBlockFollowups(list) ==
  LET zero == SelectSeq(list, LAMBDA f : f.block_offset = 0)
  IN [k \in 1..Len(zero) |-> <<zero[k].tx_hash, zero[k].log_index>>]

AltPassing(tx_hash, pool) ==
  LET receipt == ChainReceipt(tx_hash)
  IN PassBothTests(LogsOf(alt_get_logs(receipt.blockNumber, pool, args.topic0)),
                   tx_hash, hex_to_int(receipt.transactionIndex))

AltSameBlockOk ==
  /\ \A r \in 1..Len(out.followups) :
       LET rec == out.followups[r]
       IN /\ SameBlockFollowups(rec.followup_swaps)
               = SameBlockKeys(AltPassing(rec.original_tx, rec.pool))
          /\ \A f \in 1..Len(rec.followup_swaps) :
               rec.followup_swaps[f].block_offset = 0 =>
                  rec.followup_swaps[f].tx_hash # rec.original_tx
  /\ pc \in {"a_from", "a_nb_logs"} =>
       LET waiting == IF pc = "a_from" /\ loc.oi = 0 THEN loc.queue ELSE <<>>
       IN SameBlockFollowups(loc.followup_swaps) \o SameBlockKeys(waiting)
            = SameBlockKeys(AltPassing(rows[i + 1].tx_hash, loc.pool))

\* C5: in both flows, of the logs the same-block query returned for a
\* backrun event (primary) or an origin swap (alternate), the same-block-after
\* window holds exactly those whose hash is not the origin's and whose
\* transaction index is greater than the origin's, in the order returned: no
\* record of the window has the origin's hash or an index less than or equal
\* to the origin's, and every returned log passing both tests is in the
\* window (in the alternate flow the window is the block_offset 0 part of
\* the follow-up list of the origin swap, written with the swap's record).
Thm_C5_SameBlockAfter ==
  IF args.none THEN PrimarySameBlockOk ELSE AltSameBlockOk

\* C5 witness: a same-block answer of six logs, among them logs of the
\* origin transaction, of an earlier transaction and of another transaction
\* at the origin's index, of which exactly the two later ones were written.
Wit_C5_TwoOfSixKept ==
  /\ args.none
  /\ \E b \in 1..Len(out.backruns) :
       LET ev == out.backruns[b]
           receipt == OriginReceipt(ev.txi)
           answer == LogsOf(ChainSwapLogs(hex_to_int(receipt.blockNumber), ev.pool))
       IN /\ Len(answer) = 6
          /\ \E k \in 1..6 : Lower(answer[k].transactionHash) = tx_hashes[ev.txi]
          /\ \E k \in 1..6 : /\ Lower(answer[k].transactionHash) # tx_hashes[ev.txi]
                             /\ answer[k].transactionIndex = receipt.transactionIndex
          /\ Len(StreamOf("same_block_swaps", ev.txi, ev.ev)) = 2
          /\ StreamOf("summary", ev.txi, ev.ev) # <<>>

AltWindowCalls(txi, ev) ==
  SelectSeq(calls, LAMBDA c : /\ c.txi = txi /\ c.ev = ev
                              /\ c.site \in {"a_same_block", "a_nb_logs"})

\* C7, as the claim states it: in the alternate flow the ranged queries of
\* an origin swap ask, in this order, for the blocks B, B+1, B+2, B+3, B being
\* the block number of the receipt of the row's transaction.
Orig_C7_AnchoredOnReceiptBlock ==
  \A t \in 1..Len(rows) : \A e \in 1..4 :
    LET B == hex_to_int(ChainReceipt(rows[t].tx_hash).blockNumber)
        qs == AltWindowCalls(t, e)
    IN /\ Len(qs) <= 4
       /\ \A k \in 1..Len(qs) :
            /\ hex_to_int(qs[k].arg) = B + (k - 1)
            /\ hex_to_int(qs[k].to_block) = B + (k - 1)

(***************************************************************************)
(* Claims about restarting the alternate flow, checked under SpecAlt.      *)
(***************************************************************************)
\* C11, as the claim states it: for any input list, after a resume no
\* origin transaction hash has records written by more than one processing
\* (one row of one run) of that transaction.
Orig_C11_OneProcessingPerHash ==
  \A r1, r2 \in 1..Len(out.followups) :
    out.followups[r1].original_tx = out.followups[r2].original_tx =>
       /\ out.followups[r1].run = out.followups[r2].run
       /\ out.followups[r1].txi = out.followups[r2].txi

\* C11: a run started again never writes a record for an origin transaction
\* hash that has a record from an earlier run: all records of one hash are
\* written by one run, a run writes only for hashes that were not in the
\* file when it started, and the records of the earlier runs stay; within
\* that run a hash has one processing per row of the input that lists it.
Thm_C11_NoRecordAcrossRuns ==
  /\ \A r1, r2 \in 1..Len(out.followups) :
       out.followups[r1].original_tx = out.followups[r2].original_tx =>
          out.followups[r1].run = out.followups[r2].run
  /\ \A r \in 1..Len(out.followups) :
       /\ out.followups[r].run <= restarts
       /\ out.followups[r].original_tx = rows[out.followups[r].txi].tx_hash
       /\ pc # "a_killed" =>
            (out.followups[r].run = restarts
               <=> out.followups[r].original_tx \notin done_txs)
  /\ \A r1, r2 \in 1..Len(out.followups) :
       r1 < r2 => out.followups[r1].run <= out.followups[r2].run

\* C11 witness: an interrupted run left records of one transaction, the
\* run started again skipped that transaction and wrote the records of
\* another one.
Wit_C11_ResumedAfterPartialRun ==
  /\ restarts = 1
  /\ pc = "a_done"
  /\ \E r1, r2 \in 1..Len(out.followups) :
       /\ out.followups[r1].run = 0
       /\ out.followups[r2].run = 1
       /\ rows[1].tx_hash = out.followups[r1].original_tx
       /\ rows[2].tx_hash = out.followups[r2].original_tx

(***************************************************************************)
(* Claims about main of the primary flow, checked under SpecPrimary.       *)
(***************************************************************************)
\* C12: when a remote call of a transaction raises (its retry budget is
\* exhausted), that call is the last call of the transaction, exactly one
\* error record is written for the transaction, carrying its hash and the
\* message of the failure, nothing is written for the transaction after it,
\* and the run goes on: the transaction counts as handled, the run is at the
\* next transaction or at its end, and at the end of the run every
\* transaction of the input has been processed.
Thm_C12_FailureBoundary ==
  /\ \A c \in 1..Len(calls) :
       calls[c].raised =>
         LET t == calls[c].txi
             errs == RecordsOfTx("errors", t)
         IN /\ \A d \in 1..Len(calls) : calls[d].txi = t => d <= c
            /\ Len(errs) = 1
            /\ errs[1].tx_hash = tx_hashes[t]
            /\ errs[1].reason = calls[c].err
            /\ errs[1].reason \in FailureMessages
            /\ \A name \in {"backruns", "tx_swaps", "same_block_swaps", "next_swaps",
                            "summary"} :
                 \A r \in 1..Len(out[name]) :
                    out[name][r].txi = t => out[name][r].at < errs[1].at
            /\ t <= i
            /\ pc \in {"receipt", "get_tx", "get_block", "same_block", "nb_block",
                       "nb_logs", "exit", "done"}
            /\ pc \in {"get_tx", "get_block", "same_block", "nb_block", "nb_logs"}
                 => i + 1 > t
  /\ pc \in {"exit", "done"} =>
       /\ i = Len(tx_hashes)
       /\ \A t \in 1..Len(tx_hashes) :
            \E c \in 1..Len(calls) : calls[c].txi = t /\ calls[c].site = "receipt"
  /\ \A t \in 1..Len(tx_hashes) : Len(RecordsOfTx("errors", t)) <= 1

\* C12 witness: the first transaction failed at a next-block query, after
\* its backrun record was written; the second transaction was processed to
\* its summary row and the run ended.
Wit_C12_FailedThenProcessed ==
  /\ pc = "done"
  /\ Len(tx_hashes) = 2
  /\ \E c \in 1..Len(calls) :
       calls[c].raised /\ calls[c].txi = 1 /\ calls[c].site = "nb_logs"
  /\ RecordsOfTx("backruns", 1) # <<>>
  /\ RecordsOfTx("errors", 1) # <<>>
  /\ RecordsOfTx("summary", 2) # <<>>

(***************************************************************************)
(* The decoders.                                                           *)
(***************************************************************************)
\* the data of a log is the hex encoding of a sequence of bytes
PayloadIsBytes(l) ==
  LET d == Strip0x(l.data)
  IN Len(d) % 2 = 0 /\ \A k \in 1..Len(d) : LowerChar(d[k]) \in HexChars

\* the number of bytes it encodes
PayloadLen(l) == Len(Strip0x(l.data)) \div 2

\* C13: for a log whose payload is shorter than 160 bytes decode_v3_swap
\* returns None (no exception, no decode-error marker); for a payload of any
\* byte length decode_custom_swap returns a result of type custom that holds
\* exactly min(len \div 32, 8) words, the first words of the payload.
Thm_C13_DecoderLengths ==
  (pc = "d_call" /\ PayloadIsBytes(args.log_entry)) =>
    LET l == args.log_entry
        v3 == out.decode_v3_swap
        cu == out.decode_custom_swap
    IN /\ (v3.called /\ PayloadLen(l) < 160) =>
            v3.result = [raised |-> FALSE, value |-> Null]
       /\ cu.called =>
            /\ ~cu.result.raised
            /\ ~cu.result.value.null
            /\ "decode_error" \notin DOMAIN cu.result.value
            /\ cu.result.value.type = "custom"
            /\ Len(cu.result.value.words) = Min(PayloadLen(l) \div 32, 8)
            /\ \A k \in 1..Len(cu.result.value.words) :
                 cu.result.value.words[k] =
                   str(int256_from_bytes(SubSeq(hex_to_bytes(l.data), 32 * k - 31, 32 * k)))

\* both decoders were applied to a log of three topics and 159 bytes
Wit_C13_OneByteShort ==
  /\ pc = "d_call"
  /\ PayloadIsBytes(args.log_entry)
  /\ PayloadLen(args.log_entry) = 159
  /\ Len(args.log_entry.topics) = 3
  /\ out.decode_v3_swap.called
  /\ out.decode_v3_swap.result = [raised |-> FALSE, value |-> Null]
  /\ out.decode_custom_swap.called
  /\ Len(out.decode_custom_swap.result.value.words) = 4

\* C14: decode_swap returns a value for every log, whatever its topics and
\* payload are: None when the first topic is none of the two swap
\* signatures, and a decoded record or a decode-error marker otherwise.  The
\* log without topics refutes it: topics[0] is read outside every try.
Orig_C14_DecodeSwapTotal ==
  (pc = "d_call" /\ out.decode_swap.called) =>
    LET l == args.log_entry
        r == out.decode_swap.result
        known == /\ Len(l.topics) > 0
                 /\ \E t \in {V3_SWAP_TOPIC0, CUSTOM_SWAP_TOPIC0} :
                       [k \in 1..Len(t) |-> LowerChar(l.topics[1][k])] = t
    IN /\ ~r.raised
       /\ ~known => r.value = Null
       /\ known => \/ r.value = Null
                   \/ "decode_error" \in DOMAIN r.value
                   \/ r.value.type \in {"v3", "custom"}

\* the receipt log a backrun record was derived from
BackrunLogOf(ev) ==
  LET logs == OriginReceipt(ev.txi).logs
  IN logs[CHOOSE k \in 1..Len(logs) : hex_to_int(logs[k].logIndex) = ev.backrun_log_index]

\* the bytes of topic 1 of the logs of the chain that have one, computed once
TopicBytes ==
  [t \in UNION {{Receipts[h].logs[k].topics[2] :
                   k \in {n \in 1..Len(Receipts[h].logs) :
                            Len(Receipts[h].logs[n].topics) >= 2}} :
                 h \in DOMAIN Receipts}
     |-> hex_to_bytes(t)]

\* C15: the pool of every backrun record is "0x" and the lower-case hex
\* encoding of the last 20 bytes of topic 1 of its log: 42 characters; and it
\* is the address of the event's same-block and next-block log queries and
\* the address the same-transaction records were selected by.
Thm_C15_PoolFromTopic ==
  \A b \in 1..Len(out.backruns) :
    LET ev == out.backruns[b]
        T == TopicBytes[BackrunLogOf(ev).topics[2]]
        receipt == OriginReceipt(ev.txi)
        kept == StreamOf("tx_swaps", ev.txi, ev.ev)
    IN /\ Len(T) = 32
       /\ ev.pool = Ox \o BytesHex(SubSeq(T, 13, 32))
       /\ Len(ev.pool) = 42
       /\ \A k \in 3..42 : ev.pool[k] \in HexChars
       /\ \A c \in 1..Len(calls) :
            (calls[c].txi = ev.txi /\ calls[c].ev = ev.ev
               /\ calls[c].method = "eth_getLogs") => calls[c].address = ev.pool
       /\ \A k \in 1..Len(kept) :
            /\ kept[k].pool = ev.pool
            /\ \E n \in 1..Len(receipt.logs) :
                 /\ hex_to_int(receipt.logs[n].logIndex) = kept[k].swap_log_index
                 /\ [m \in 1..Len(receipt.logs[n].address) |->
                       LowerChar(receipt.logs[n].address[m])] = ev.pool
       /\ Len(kept) = PoolSwapsInReceipt(receipt, ev.pool)

\* C15 witness: a completed event whose topic 1 has upper-case digits and
\* non-zero upper bytes, with a same-transaction record and all four ranged
\* queries issued for its pool.
Wit_C15_DirtyTopic ==
  \E b \in 1..Len(out.backruns) :
    LET ev == out.backruns[b]
    IN /\ BackrunLogOf(ev).topics[2] = TopicDirty
       /\ ev.pool = PoolP
       /\ EventCompleted(ev.txi, ev.ev)
       /\ StreamOf("tx_swaps", ev.txi, ev.ev) # <<>>
       /\ Cardinality({c \in 1..Len(calls) :
                         /\ calls[c].txi = ev.txi /\ calls[c].ev = ev.ev
                         /\ calls[c].method = "eth_getLogs"
                         /\ calls[c].address = PoolP}) = 4

\* the magnitude a string of decimal digits denotes
DecLimbs(sd) ==
  LET n == (Len(sd) + 5) \div 6
  IN StripZeros([j \in 1..n |->
       DecToInt(SubSeq(sd, IF j = 1 THEN 1 ELSE Len(sd) - 6 * (n - j) - 5,
                       Len(sd) - 6 * (n - j)), 0)])

RECURSIVE NatDivModAt(_, _, _, _, _)
\* long division of limbs k.. of d by a small m, after remainder rem and
\* quotient limbs q
NatDivModAt(d, m, k, rem, q) ==
  IF k > Len(d) THEN [q |-> StripZeros(q), r |-> rem]
  ELSE LET v == rem * LIMB + d[k]
           done == Append(q, v \div m)
       IN NatDivModAt(d, m, k + 1, v % m, done)

RECURSIVE NatToBytes(_)
\* the big-endian bytes of a magnitude, no zero byte in front
NatToBytes(d) ==
  IF d = <<>> THEN <<>>
  ELSE Bind(NatDivModAt(d, 256, 1, 0, <<>>), LAMBDA x : NatToBytes(x.q) \o <<x.r>>)

RECURSIVE StripZeroBytes(_)
StripZeroBytes(b) == IF b # <<>> /\ b[1] = 0 THEN StripZeroBytes(Tail(b)) ELSE b

\* bytes 96..127 of the payload of a log, as Python slices them
ProfitSlice(l) ==
  LET bs == hex_to_bytes(l.data)
  IN IF Len(bs) <= 96 THEN <<>> ELSE SubSeq(bs, 97, IF Len(bs) < 128 THEN Len(bs) ELSE 128)

\* C16: the profit parse_backrun_log returns is a string of decimal digits
\* without a sign, the decimal rendering of the big-endian unsigned value of
\* bytes 96..127 of the payload: converted back to bytes it gives the slice,
\* also when the top bit of the slice is set.
Thm_C16_ProfitUnsigned ==
  (pc = "d_call" /\ out.parse_backrun_log.called
     /\ ~out.parse_backrun_log.result.raised) =>
    LET p == out.parse_backrun_log.result.value.profit_raw
    IN /\ Len(p) >= 1
       /\ \A k \in 1..Len(p) : p[k] \in {DecDigits[d] : d \in 1..10}
       /\ (Len(p) > 1 => p[1] # "0")
       /\ NatToBytes(DecLimbs(p)) = StripZeroBytes(ProfitSlice(args.log_entry))

\* C16 witness: a parsed log whose slice has the top bit set; its profit is
\* a number of 78 digits.
Wit_C16_TopBitSet ==
  /\ pc = "d_call"
  /\ out.parse_backrun_log.called
  /\ ~out.parse_backrun_log.result.raised
  /\ Len(ProfitSlice(args.log_entry)) = 32
  /\ ProfitSlice(args.log_entry)[1] >= 128
  /\ Len(out.parse_backrun_log.result.value.profit_raw) = 78
  /\ out.parse_backrun_log.result.value.profit_raw[1] # "-"

(***************************************************************************)
(* Order of processing.                                                    *)
(***************************************************************************)
\* t is s with items appended
Grown(s, t) == Len(t) >= Len(s) /\ SubSeq(t, 1, Len(s)) = s

\* the transaction numbers of the items never decrease along the sequence
OrderedByTx(s) == \A j, k \in 1..Len(s) : j < k => s[j].txi <= s[k].txi

\* a step of a run of either flow: the loop index stays or moves to the next
\* input entry; every remote call issued and every record written by the
\* step belongs to the input entry the index stood at, a receipt call asks
\* for the hash of that entry; so the calls of the run, and in every stream
\* the records of the run, are in input order
InputOrderStep ==
  LET alt == "followups" \in DOMAIN out
      n == IF alt THEN Len(rows) ELSE Len(tx_hashes)
      started == [s \in DOMAIN out |->
                    SelectSeq(out'[s], LAMBDA r : alt => r.run = restarts)]
  IN (restarts' = restarts /\ pc' # "a_killed") =>
       /\ i' \in {i, i + 1}
       /\ i' <= n
       /\ Grown(calls, calls')
       /\ \A k \in (Len(calls) + 1)..Len(calls') :
            /\ calls'[k].txi = i + 1
            /\ calls'[k].site \in {"receipt", "a_receipt"} =>
                 calls'[k].arg = IF alt THEN rows[i + 1].tx_hash ELSE tx_hashes[i + 1]
       /\ OrderedByTx(calls')
       /\ \A s \in DOMAIN out :
            /\ Grown(out[s], out'[s])
            /\ \A k \in (Len(out[s]) + 1)..Len(out'[s]) : out'[s][k].txi = i + 1
            /\ OrderedByTx(started[s])

\* C17 as stated: in every output stream the records are in input order of
\* their origin transactions.  The stream of the alternate flow after a
\* resumed run refutes it: the resumed run appends the records of an entry
\* that failed in the earlier run behind those of later entries.
Orig_C17_StreamsInInputOrder == \A s \in DOMAIN out : OrderedByTx(out[s])

\* C17, amended: the transactions of a run are processed in input order, one
\* at a time: every call and every write of a step is for the entry the loop
\* stands at, and the loop only moves forward by one; the records one run
\* writes to a stream are in input order.
Thm_C17_InputOrder == [][InputOrderStep]_vars

\* C17 witness: the primary flow has ended after two transactions, the first
\* ended by a failed call and the second by its summary row, each with calls
\* and records of its own.
Wit_C17_TwoInOrder ==
  /\ pc = "done"
  /\ "errors" \in DOMAIN out
  /\ Len(tx_hashes) = 2
  /\ \E c, d \in 1..Len(calls) :
       /\ calls[c].txi = 1 /\ calls[c].raised /\ calls[c].site = "same_block"
       /\ calls[d].txi = 2 /\ calls[d].site = "nb_logs" /\ c < d
  /\ \E b, e \in 1..Len(out.backruns) :
       out.backruns[b].txi = 1 /\ out.backruns[e].txi = 2 /\ b < e
  /\ \E r \in 1..Len(out.summary) : out.summary[r].txi = 2

(***************************************************************************)
(* The block cache of the primary flow.                                    *)
(***************************************************************************)
\* the block-by-number calls that returned
BlockCallsDone(cs) ==
  {c \in 1..Len(cs) : cs[c].method = "eth_getBlockByNumber" /\ ~cs[c].raised}

\* a step keeps every cache entry as it is; after it, no block number has
\* two block-by-number calls that returned, whichever transaction, event or
\* window referred to the block, and the cache holds exactly the blocks such
\* a call was made for, each with what the call returned
BlockCacheStep ==
  /\ \A key \in DOMAIN block_cache :
       key \in DOMAIN block_cache' /\ block_cache'[key] = block_cache[key]
  /\ \A c, d \in BlockCallsDone(calls') :
       hex_to_int(calls'[c].arg) = hex_to_int(calls'[d].arg) => c = d
  /\ DOMAIN block_cache' = {calls'[c].arg : c \in BlockCallsDone(calls')}
  /\ \A key \in DOMAIN block_cache' : block_cache'[key] = ChainBlock(hex_to_int(key))

\* C18: the block cache memoizes for the whole run: at most one
\* block-by-number call returns per block number, and an entry of the cache
\* is never removed or replaced.
Thm_C18_BlockCache == [][BlockCacheStep]_vars

\* C18 witness: block 12 is the third offset block of both events of the
\* first transaction and the origin block of the second; the run has ended
\* with one block-by-number call for it, made for the first event.
Wit_C18_OriginAndOffset ==
  /\ pc = "done"
  /\ tx_hashes = <<H_TWO, H_NOLOG>>
  /\ Len(out.summary) = 2
  /\ \E c \in BlockCallsDone(calls) :
       /\ calls[c].arg = hex(12)
       /\ calls[c].txi = 1 /\ calls[c].ev = 1 /\ calls[c].site = "nb_block"
       /\ \A d \in BlockCallsDone(calls) : calls[d].arg = hex(12) => d = c
  /\ \E c \in 1..Len(calls) : calls[c].txi = 2 /\ calls[c].site = "tx"
  /\ hex(12) \in DOMAIN block_cache

(***************************************************************************)
(* Resume of the alternate flow.                                           *)
(***************************************************************************)
\* the records the stream holds for the hash h
RecordsOfHash(h) == SelectSeq(out.followups, LAMBDA r : r.original_tx = h)

\* the records an uninterrupted run writes for a row of hash h: one for each
\* log of the receipt whose first topic is topic0
ExpectedRecords(h) ==
  LET receipt == ChainReceipt(h)
  IN IF receipt.null THEN 0
     ELSE Cardinality({k \in 1..Len(receipt.logs) :
                         /\ receipt.logs[k].topics # <<>>
                         /\ Lower(receipt.logs[k].topics[1]) = Lower(args.topic0)})

\* C19: every transaction a resumed run skips was completed by the earlier
\* run: the stream holds all of its swap-log records, as many as one
\* uninterrupted run writes (stated for inputs that list no hash twice).  A
\* run interrupted between two records of one transaction refutes it.
Orig_C19_SkippedWereCompleted ==
  (/\ restarts > 0
   /\ pc # "a_killed"
   /\ \A j, k \in 1..Len(rows) : rows[j].tx_hash = rows[k].tx_hash => j = k) =>
    \A h \in done_txs : Len(RecordsOfHash(h)) = ExpectedRecords(h)

(***************************************************************************)
(* Order of the writes and queries of one backrun event.                   *)
(***************************************************************************)
\* the instants of the items of a sequence
AtsOf(items) == {items[k].at : k \in 1..Len(items)}

\* every instant of A is before every instant of B
Before(A, B) == \A a \in A, b \in B : a < b

\* the calls of one site made for an event
SiteCalls(site, txi, ev) ==
  SelectSeq(calls, LAMBDA c : c.site = site /\ c.txi = txi /\ c.ev = ev)

\* C20: for every backrun event the backrun record comes first, before the
\* records of its windows and before its same-block and next-block queries;
\* then the same-transaction records, the same-block query and its records,
\* the next-block queries of offsets 1, 2, 3 each followed by its records;
\* the summary row comes last; and everything of one event is before the
\* backrun record of the next event of the transaction.
Thm_C20_EventWriteOrder ==
  \A b \in 1..Len(out.backruns) :
    LET br == out.backruns[b]
        B == hex_to_int(OriginReceipt(br.txi).blockNumber)
        txsw == AtsOf(StreamOf("tx_swaps", br.txi, br.ev))
        sbq == AtsOf(SiteCalls("same_block", br.txi, br.ev))
        sbsw == AtsOf(StreamOf("same_block_swaps", br.txi, br.ev))
        nbh == AtsOf(SiteCalls("nb_block", br.txi, br.ev))
        nq == SiteCalls("nb_logs", br.txi, br.ev)
        nbsw == StreamOf("next_swaps", br.txi, br.ev)
        sm == AtsOf(StreamOf("summary", br.txi, br.ev))
        all == txsw \cup sbq \cup sbsw \cup nbh \cup AtsOf(nq) \cup AtsOf(nbsw)
    IN /\ Before({br.at}, all \cup sm)
       /\ Before(txsw, sbq \cup sbsw \cup nbh \cup AtsOf(nq) \cup AtsOf(nbsw))
       /\ Cardinality(sbq) <= 1
       /\ sm # {} => (Cardinality(sbq) = 1 /\ Len(nq) = 3)
       /\ Before(sbq, sbsw)
       /\ Before(sbq \cup sbsw, nbh \cup AtsOf(nq) \cup AtsOf(nbsw))
       /\ \A k \in 1..Len(nq) :
            /\ nq[k].arg = hex(B + k)
            /\ k < Len(nq) => nq[k].at < nq[k + 1].at
       /\ \A r \in 1..Len(nbsw) :
            /\ nbsw[r].offset \in 1..Len(nq)
            /\ nq[nbsw[r].offset].at < nbsw[r].at
            /\ nbsw[r].offset < Len(nq) => nbsw[r].at < nq[nbsw[r].offset + 1].at
       /\ Before(all, sm)
       /\ \A b2 \in 1..Len(out.backruns) :
            (out.backruns[b2].txi = br.txi /\ out.backruns[b2].ev > br.ev) =>
               /\ sm # {}
               /\ Before({br.at} \cup all \cup sm, {out.backruns[b2].at})

\* C20 witness: a transaction with two completed events; the first has a
\* same-transaction record, the second a next-block record; both have their
\* summary rows.
Wit_C20_TwoEvents ==
  /\ pc = "done"
  /\ \E t \in 1..Len(tx_hashes) :
       /\ StreamOf("backruns", t, 1) # <<>>
       /\ StreamOf("backruns", t, 2) # <<>>
       /\ StreamOf("tx_swaps", t, 1) # <<>>
       /\ StreamOf("summary", t, 1) # <<>>
       /\ StreamOf("summary", t, 2) # <<>>
       /\ \E e \in {1, 2} : StreamOf("next_swaps", t, e) # <<>>
       /\ \E e \in {1, 2} : StreamOf("same_block_swaps", t, e) # <<>>

(***************************************************************************)
(* Claims about the request-id counter, checked under SpecRpc.             *)
(***************************************************************************)
\* a step enters rpc_call
CallEntered == rpc_pc # "loop" /\ rpc_pc' = "loop"

RpcIdStep ==
  /\ rpc_id' >= rpc_id
  /\ CallEntered => rpc_id' = rpc_id + 1
  /\ ~CallEntered => rpc_id' = rpc_id
  /\ rpc_pc' = "loop" => rpc_payload'.id = rpc_id'
  /\ \A x, y \in 1..Len(rpc_sent') :
        rpc_sent'[x].call # rpc_sent'[y].call => rpc_sent'[x].id # rpc_sent'[y].id

\* C24: the request-id counter is monotonic: every step that enters rpc_call
\* adds exactly one to it, whatever the retry budget and whatever the call
\* meets afterwards; no other step (attempt, retry, return, raise) changes
\* it; it never decreases; the envelope of the call in progress carries the
\* counter's value, and envelopes of two different calls never carry the
\* same identifier.
Thm_C24_RpcIdMonotonic == [][RpcIdStep]_vars

\* C24 witness: three calls were made: one returned at its first attempt,
\* one was retried, and the third has raised; the counter stands at three.
Wit_C24_ThreeCallsThreeIds ==
  /\ rpc_id = 3
  /\ rpc_pc = "raised"
  /\ \E x, y \in 1..Len(rpc_sent) :
       /\ rpc_sent[x].call = 1 /\ rpc_sent[y].call = 2 /\ rpc_sent[y].attempt = 2
       /\ \A z \in 1..Len(rpc_sent) : rpc_sent[z].call = 1 => rpc_sent[z].attempt = 1

(***************************************************************************)
(* Claims about the counts main reports, checked under SpecPrimary.        *)
(***************************************************************************)
\* C26 as stated: when the run has ended, total_backruns (the number of
\* entries main reports for the backrun stream) is the number of records in
\* the backrun stream, and errors is the number of records in the error
\* stream.
Orig_C26_ReportedCountsAgree ==
  pc = "done" =>
    /\ total_backruns = Len(out.backruns)
    /\ errors = Len(out.errors)

(***************************************************************************)
(* Claims about a null transaction body, checked under SpecPrimary.        *)
(***************************************************************************)
\* the input entries whose receipt is present and whose transaction-by-hash
\* query has returned null
BodylessTxs ==
  {t \in 1..Len(tx_hashes) :
     /\ ~OriginReceipt(t).null
     /\ ChainTx(tx_hashes[t]).null
     /\ \E c \in 1..Len(calls) :
          calls[c].txi = t /\ calls[c].site = "tx" /\ ~calls[c].raised}

RaisedIn(t) == \E c \in 1..Len(calls) : calls[c].txi = t /\ calls[c].raised

\* processing went on after the null body: an error record of t is either
\* that of a remote call that raised or no_backrun_log of a receipt without
\* backrun log; when t has been handled without a raised call, every backrun
\* log of the receipt has its backrun record, its same-block query, its
\* three next-block queries and its summary row
WentOnAfterNullBody(t) ==
  LET n == Cardinality({k \in 1..Len(OriginReceipt(t).logs) :
                          /\ Lower(OriginReceipt(t).logs[k].address) = TARGET_CONTRACT
                          /\ Len(OriginReceipt(t).logs[k].topics) >= 2
                          /\ Lower(OriginReceipt(t).logs[k].topics[1]) = BACKRUN_TOPIC0})
      errs == RecordsOfTx("errors", t)
  IN /\ \A e \in 1..Len(errs) :
          \/ RaisedIn(t) /\ errs[e].reason \in FailureMessages
          \/ n = 0 /\ errs[e].reason = "no_backrun_log"
     /\ (t <= i /\ ~RaisedIn(t)) =>
          /\ Len(RecordsOfTx("backruns", t)) = n
          /\ Len(RecordsOfTx("summary", t)) = n
          /\ \A e \in 1..n :
               /\ Len(StreamOf("backruns", t, e)) = 1
               /\ Len(StreamOf("summary", t, e)) = 1
               /\ Cardinality({c \in 1..Len(calls) :
                                 /\ calls[c].txi = t /\ calls[c].ev = e
                                 /\ calls[c].site = "same_block"}) = 1
               /\ Len(NextQueries(t, e)) = 3

\* C22 as stated: after a null transaction body processing goes on, and the
\* destination and the method-selector fields of the backrun records and of
\* the summary rows of the transaction are empty.
Orig_C22_NullBodyEmptyFields ==
  \A t \in BodylessTxs :
    /\ WentOnAfterNullBody(t)
    /\ \A name \in {"backruns", "summary"} :
         \A r \in 1..Len(RecordsOfTx(name, t)) :
           /\ RecordsOfTx(name, t)[r].tx_to = <<>>
           /\ RecordsOfTx(name, t)[r].tx_input_selector = <<>>

\* C22 amended: after a null transaction body processing goes on and no
\* error record is written for it; in the backrun records and the summary
\* rows of the transaction the destination field is the empty string and the
\* method-selector field is the two characters "0x".
Thm_C22_NullBodyGoesOn ==
  \A t \in BodylessTxs :
    /\ WentOnAfterNullBody(t)
    /\ \A name \in {"backruns", "summary"} :
         \A r \in 1..Len(RecordsOfTx(name, t)) :
           /\ RecordsOfTx(name, t)[r].tx_to = <<>>
           /\ RecordsOfTx(name, t)[r].tx_input_selector = <<"0", "x">>

\* C22 witness: the run is over; a transaction with a receipt and a null
\* body has its backrun record and its summary row, no error record, and a
\* record in the next-blocks stream.
Wit_C22_BodylessEmitted ==
  /\ pc = "done"
  /\ \E t \in BodylessTxs :
       /\ RecordsOfTx("backruns", t) # <<>>
       /\ RecordsOfTx("summary", t) # <<>>
       /\ RecordsOfTx("next_swaps", t) # <<>>
       /\ RecordsOfTx("errors", t) = <<>>

(***************************************************************************)
(* Claims about the streams as files, checked under SpecFlows.             *)
(***************************************************************************)
\* s is an initial part of t
IsPrefix(s, t) == Len(s) <= Len(t) /\ \A k \in 1..Len(s) : t[k] = s[k]

AppendOnlyStep ==
  /\ DOMAIN out' = DOMAIN out
  /\ restarts' = restarts => \A s \in DOMAIN out : IsPrefix(out[s], out'[s])
  /\ (restarts' # restarts /\ done_txs' # {}) =>
        /\ out' = out
        /\ pc' \in {"a_receipt", "a_exit"}

\* C23: a step of a run of either flow leaves in every stream (the summary
\* table included) what the stream held, as an initial part of what it holds
\* after the step: nothing written is removed, moved or changed; the start
\* of a run of the alternate flow that finds a non-empty completed set
\* leaves the stream as the earlier runs left it, and the steps of the
\* resumed run append to it.
Thm_C23_AppendOnly == [][AppendOnlyStep]_vars

\* C23 witness: a resumed run of the alternate flow, started with a
\* non-empty completed set, has written a record behind those of the earlier
\* run.
Wit_C23_ResumedAppends ==
  /\ "followups" \in DOMAIN out
  /\ restarts = 1
  /\ done_txs # {}
  /\ \E j, k \in 1..Len(out.followups) :
       /\ j < k
       /\ out.followups[j].run = 0
       /\ out.followups[k].run = 1

(***************************************************************************)
(* Claims about the output of a stopped run, checked under SpecCrash.      *)
(***************************************************************************)
\* the origin transaction of a record: the field tx_hash of a
\* same-transaction record and of a summary row, origin_tx_hash of a record
\* of the two other streams
OriginOf(r) == IF "origin_tx_hash" \in DOMAIN r THEN r.origin_tx_hash ELSE r.tx_hash

\* C21 as stated: in every state of a run, and in the files a killed run
\* leaves, every record of the same-transaction, same-block-after and
\* next-blocks streams and every summary row has in the backrun stream a
\* record of its origin transaction and pool written before it, and there
\* are no more summary rows than backrun records.
Orig_C21_PartialButConsistent ==
  /\ \A name \in {"tx_swaps", "same_block_swaps", "next_swaps", "summary"} :
       \A r \in 1..Len(out[name]) :
         \E b \in 1..Len(out.backruns) :
           /\ out.backruns[b].tx_hash = OriginOf(out[name][r])
           /\ out.backruns[b].pool = out[name][r].pool
           /\ out.backruns[b].at < out[name][r].at
  /\ Len(out.summary) <= Len(out.backruns)

(***************************************************************************)
(* Claims about termination, checked under SpecLive.                       *)
(***************************************************************************)
RunInProgress == pc \in PrimaryRunning \cup AltRunning \cup {"exit", "a_exit"}

RunEnded == pc \in {"done", "a_done"}

ReceiptCalls(t) ==
  Cardinality({c \in 1..Len(calls) :
                 calls[c].txi = t /\ calls[c].site \in {"receipt", "a_receipt"}})

\* the primary flow at its end: the loop has passed every entry; each entry
\* had one receipt call and either one error record, or no error record and
\* a summary row for each backrun log of its receipt
PrimaryHandledOnce ==
  /\ i = Len(tx_hashes)
  /\ \A t \in 1..Len(tx_hashes) :
       /\ ReceiptCalls(t) = 1
       /\ \/ Len(RecordsOfTx("errors", t)) = 1
          \/ /\ RecordsOfTx("errors", t) = <<>>
             /\ \A c \in 1..Len(calls) : calls[c].txi = t => ~calls[c].raised
             /\ HasBackrunLog(OriginReceipt(t))
             /\ Len(RecordsOfTx("summary", t)) = Len(RecordsOfTx("backruns", t))
             /\ Len(RecordsOfTx("backruns", t)) =
                  Cardinality({k \in 1..Len(OriginReceipt(t).logs) :
                     /\ Lower(OriginReceipt(t).logs[k].address) = TARGET_CONTRACT
                     /\ Len(OriginReceipt(t).logs[k].topics) >= 2
                     /\ Lower(OriginReceipt(t).logs[k].topics[1]) = BACKRUN_TOPIC0})

\* the alternate flow at its end: the loop has passed every row; a row whose
\* hash was in the completed set had no call; every other row had one
\* receipt call and either a call that raised, counted in errors, or one
\* record of this run for each matching swap log of its receipt
AltHandledOnce ==
  /\ i = Len(rows)
  /\ errors = Cardinality({c \in 1..Len(calls) : calls[c].raised})
  /\ \A t \in 1..Len(rows) :
       IF rows[t].tx_hash \in done_txs
       THEN \A c \in 1..Len(calls) : calls[c].txi # t
       ELSE /\ ReceiptCalls(t) = 1
            /\ Cardinality({c \in 1..Len(calls) :
                              calls[c].txi = t /\ calls[c].raised}) <= 1
            /\ (\A c \in 1..Len(calls) : calls[c].txi = t => ~calls[c].raised) =>
                 Len(SelectSeq(out.followups,
                               LAMBDA r : r.txi = t /\ r.run = restarts)) =
                 IF ChainReceipt(rows[t].tx_hash).null THEN 0
                 ELSE Cardinality({k \in 1..Len(ChainReceipt(rows[t].tx_hash).logs) :
                        /\ ChainReceipt(rows[t].tx_hash).logs[k].topics # <<>>
                        /\ Lower(ChainReceipt(rows[t].tx_hash).logs[k].topics[1]) =
                             Lower(args.topic0)})

HandledOnce ==
  /\ pc = "done" => PrimaryHandledOnce
  /\ pc = "a_done" => AltHandledOnce

\* C25: when every remote call returns or raises, every run of either flow
\* that is in progress reaches its end; and at the end every input entry
\* has been handled once: processed to its end, or ended by an error, or, in
\* the alternate flow, skipped because its hash was in the completed set; no
\* entry has a second receipt call.
Thm_C25_TerminatesHandledOnce ==
  /\ RunInProgress ~> RunEnded
  /\ [](RunEnded => HandledOnce)

\* C25 witness: a second run of the alternate flow has ended over two rows:
\* one was skipped as completed, the other, ended by a raised call in the
\* first run, was processed.
Wit_C25_SecondRunEnded ==
  /\ pc = "a_done"
  /\ restarts = 1
  /\ Len(rows) = 2
  /\ \E t, u \in 1..Len(rows) :
       /\ rows[t].tx_hash \in done_txs
       /\ rows[u].tx_hash \notin done_txs
       /\ ReceiptCalls(u) = 1
       /\ \E r \in 1..Len(out.followups) :
            out.followups[r].txi = u /\ out.followups[r].run = 1

====
